---- MODULE Spec2Model ----
(***************************************************************************)
(* Verification model of the MemU memory layer (memu/memory):              *)
(*   - MemoryFileManager      (file_manager.py)   the category store       *)
(*   - the memory actions     (actions/*.py)      ingest, update, link     *)
(*   - MemoryAgent.run        (memory_agent.py)   the function-call loop   *)
(*                                                                         *)
(* A category file is a text; a text is modelled as the sequence of its    *)
(* lines ("\n".join / split("\n")), the empty string being the empty       *)
(* sequence.  A line is a record whose kind says which of the shapes the   *)
(* parsers distinguish it has:                                             *)
(*   item    [id][mentioned at date] content [links]                       *)
(*   bare    [id][mentioned at date] content            (no link bracket)  *)
(*   legacy  [id] content                                                  *)
(*   raw     any other non-empty text                                      *)
(*   empty   the empty line                                                *)
(***************************************************************************)
EXTENDS Integers, Sequences, FiniteSets, TLC

\* ------------------------------------------------------------------------
\* Bounds of the model
\* ------------------------------------------------------------------------
MaxLines == 2
MaxOps == 2
MaxCoreOps == 3
MaxTopK == 2
MaxNewLines == 2
MaxWriteLines == 1
MaxIterations == 2
MaxToolCalls == 2
MaxResponseLines == 3
MaxSuggestionLines == 4
MaxClusterLines == 2
MaxContentChars == 3
MaxLinkChars == 2
MaxStringChars == 4

\* ------------------------------------------------------------------------
\* Value universes
\* ------------------------------------------------------------------------
\* pool the 6-character uuid prefixes are drawn from
MemoryIds == {"a", "b", "c"}
\* sentences produced by the language model
Contents == {"x", "y", "z"}
\* calendar dates
Dates == {"d1", "d2"}
\* basic categories of the configuration (memu/config/{profile,event,activity})
BasicCategories == {"profile", "event", "activity"}

NoId == ""
NoDate == ""
NoContent == ""

Line(k, id, d, c, l) ==
    [kind |-> k, memory_id |-> id, mentioned_at |-> d, content |-> c, links |-> l]

EmptyLine == Line("empty", NoId, NoDate, NoContent, <<>>)

MemoryItem(id, d, c, l) ==
    [memory_id |-> id, mentioned_at |-> d, content |-> c, links |-> l]

\* ------------------------------------------------------------------------
\* Strings as line sequences
\* ------------------------------------------------------------------------
\* content.split("\n"): the empty string splits into one empty line
Split(text) == IF text = <<>> THEN <<EmptyLine>> ELSE text

\* "\n".join(lines): a single empty line joins to the empty string
Join(lines) == IF lines = <<EmptyLine>> THEN <<>> ELSE lines

\* a + "\n" + b
ConcatNewline(a, b) == Join(Split(a) \o Split(b))

\* text.endswith(suffix)
EndsWith(text, suffix) ==
    LET t == Split(text)
        s == Split(suffix)
    IN  \/ suffix = <<>>
        \/ /\ Len(s) <= Len(t)
           /\ SubSeq(t, Len(t) - Len(s) + 1, Len(t)) = s

\* text.startswith(prefix) on whole lines
StartsWith(text, prefix) ==
    \/ prefix = <<>>
    \/ /\ Len(prefix) <= Len(text)
       /\ SubSeq(text, 1, Len(prefix)) = prefix

RECURSIVE SeqsUpTo(_, _)
SeqsUpTo(S, n) ==
    IF n = 0 THEN {<<>>}
    ELSE LET shorter == SeqsUpTo(S, n - 1)
         IN  shorter \cup {Append(s, e) : s \in {t \in shorter : Len(t) = n - 1}, e \in S}

\* ------------------------------------------------------------------------
\* State
\* ------------------------------------------------------------------------
VARIABLES
    files,        \* file name -> text, for the files present in <memory_dir>/<agent>/<user>
    embeddings,   \* category -> records of <category>_embeddings.json, for the sidecars present
    embeddings_enabled,   \* MemoryCore.embeddings_enabled, fixed at construction
    call,         \* the last call made: operation and arguments
    env,          \* what the collaborators did during the last call (model, I/O)
    pre,          \* files and embeddings when the last call started
    result,       \* what the last call returned
    agent,        \* MemoryAgent.run: its position, counters, results and the stop flag
    workers       \* the requests served at the same time by worker threads, each
                  \* with its position and what it has read

vars == <<files, embeddings, embeddings_enabled, call, env, pre, result, agent, workers>>

NoCall == [op |-> "none"]

\* no request is being served by a worker thread
NoWorkers == <<>>

\* an agent on which run has not been called; requests, clean, complete_at,
\* stop_requests and executed record the history of the run, messages is the
\* conversation the model requests of the run carry
AgentIdle ==
    [pc |-> "idle", max_iterations |-> 0, iteration |-> 0, iterations |-> 0,
     success |-> TRUE, function_calls |-> <<>>, pending |-> <<>>,
     processing_log |-> <<>>, tool_messages |-> <<>>, executed |-> <<>>,
     response |-> [raised |-> FALSE, success |-> FALSE, complete |-> FALSE,
                   tool_calls |-> <<>>],
     stop_flag |-> FALSE, requests |-> 0, clean |-> TRUE, complete_at |-> 0,
     stop_requests |-> -1, messages |-> <<>>]

\* ------------------------------------------------------------------------
\* MemoryFileManager
\* ------------------------------------------------------------------------
\* file name (stem) of a category; basic categories map to <name>.md, any
\* other category to category.replace(" ", "_") + ".md"
GetMemoryFilePath(category) ==
    CASE category = "my notes" -> "my_notes"
      [] OTHER -> category

FileExists(fs, category) == GetMemoryFilePath(category) \in DOMAIN fs

FileText(fs, category) == fs[GetMemoryFilePath(category)]

\* outcomes of one file read: it works, or read_text raises
ReadOutcomes == {"ok", "error"}
\* outcomes of one file write: it works, it raises before the file is opened,
\* or it raises after open(..., "w") has truncated the file
WriteOutcomes == {"ok", "error", "error_truncated"}
\* outcomes of unlink
DeleteOutcomes == {"ok", "error"}

\* read_memory_file: the text, "" when the file is missing, "" when reading raises
read_memory_file(fs, category, rd) ==
    IF rd = "ok" /\ FileExists(fs, category) THEN FileText(fs, category) ELSE <<>>

PutFile(fs, category, content) ==
    [f \in DOMAIN fs \cup {GetMemoryFilePath(category)} |->
        IF f = GetMemoryFilePath(category) THEN content ELSE fs[f]]

\* write_memory_file: [ok, files after]
write_memory_file(fs, category, content, wr) ==
    CASE wr = "ok" -> [ok |-> TRUE, files |-> PutFile(fs, category, content)]
      [] wr = "error" -> [ok |-> FALSE, files |-> fs]
      [] OTHER -> [ok |-> FALSE, files |-> PutFile(fs, category, <<>>)]

\* new_content of append_memory_file
AppendedContent(existing_content, content) ==
    IF existing_content # <<>>
    THEN ConcatNewline(existing_content, content)
    ELSE content

\* append_memory_file: read, concatenate with a newline, write
append_memory_file(fs, category, content, rd, wr) ==
    LET existing_content == read_memory_file(fs, category, rd)
        new_content == AppendedContent(existing_content, content)
    IN  write_memory_file(fs, category, new_content, wr)

\* a delete that reports a missing file as a failure
delete_memory_file_Strict(fs, category, dl) ==
    IF dl = "ok" /\ FileExists(fs, category)
    THEN [ok |-> TRUE,
          files |-> [f \in DOMAIN fs \ {GetMemoryFilePath(category)} |-> fs[f]]]
    ELSE [ok |-> FALSE, files |-> fs]

\* delete_memory_file: [ok, files after]; unlink is called, and can raise,
\* only when the file exists
delete_memory_file(fs, category, dl) ==
    IF dl = "ok" \/ ~FileExists(fs, category)
    THEN [ok |-> TRUE,
          files |-> [f \in DOMAIN fs \ {GetMemoryFilePath(category)} |-> fs[f]]]
    ELSE [ok |-> FALSE, files |-> fs]

Snapshot == [files |-> files, embeddings |-> embeddings]

\* ------------------------------------------------------------------------
\* The file manager called directly
\* ------------------------------------------------------------------------
\* lines and texts the direct calls write
SampleLines == {Line("item", "a", "d1", "x", <<>>), Line("raw", NoId, NoDate, "y", <<>>)}

SampleTexts == SeqsUpTo(SampleLines, MaxWriteLines)

\* categories the direct calls name
DirectCategories == {"profile", "activity"}

ReadMemoryFile(category, rd) ==
    /\ call' = [op |-> "read_memory_file", category |-> category, content |-> <<>>]
    /\ env' = [rd |-> rd, wr |-> "ok"]
    /\ pre' = Snapshot
    /\ result' = [ok |-> TRUE, text |-> read_memory_file(files, category, rd)]
    /\ UNCHANGED <<files, embeddings, embeddings_enabled, agent, workers>>

WriteMemoryFile(category, content, wr) ==
    LET r == write_memory_file(files, category, content, wr)
    IN  /\ call' = [op |-> "write_memory_file", category |-> category, content |-> content]
        /\ env' = [rd |-> "ok", wr |-> wr]
        /\ pre' = Snapshot
        /\ files' = r.files
        /\ result' = [ok |-> r.ok, text |-> <<>>]
        /\ UNCHANGED <<embeddings, embeddings_enabled, agent, workers>>

AppendMemoryFile(category, content, rd, wr) ==
    LET r == append_memory_file(files, category, content, rd, wr)
    IN  /\ FileExists(files, category) => Len(FileText(files, category)) < MaxLines
        /\ call' = [op |-> "append_memory_file", category |-> category, content |-> content]
        /\ env' = [rd |-> rd, wr |-> wr]
        /\ pre' = Snapshot
        /\ files' = r.files
        /\ result' = [ok |-> r.ok, text |-> <<>>]
        /\ UNCHANGED <<embeddings, embeddings_enabled, agent, workers>>

DeleteMemoryFile(category, dl) ==
    LET r == delete_memory_file(files, category, dl)
    IN  /\ call' = [op |-> "delete_memory_file", category |-> category, content |-> <<>>]
        /\ env' = [rd |-> "ok", wr |-> IF FileExists(files, category) THEN dl ELSE "ok"]
        /\ pre' = Snapshot
        /\ files' = r.files
        /\ result' = [ok |-> r.ok, text |-> <<>>]
        /\ UNCHANGED <<embeddings, embeddings_enabled, agent, workers>>

\* a MemoryFileManager constructed on a new memory directory
InitStore ==
    /\ files = <<>>
    /\ embeddings = <<>>
    /\ embeddings_enabled = TRUE
    /\ call = NoCall
    /\ env = [rd |-> "ok", wr |-> "ok"]
    /\ pre = Snapshot
    /\ result = [ok |-> TRUE, text |-> <<>>]
    /\ agent = AgentIdle
    /\ workers = NoWorkers

NextStore ==
    \E category \in DirectCategories :
        \/ \E rd \in ReadOutcomes : ReadMemoryFile(category, rd)
        \/ \E content \in SampleTexts, wr \in WriteOutcomes :
              WriteMemoryFile(category, content, wr)
        \/ \E content \in SampleTexts, rd \in ReadOutcomes, wr \in WriteOutcomes :
              AppendMemoryFile(category, content, rd, wr)
        \/ \E dl \in DeleteOutcomes : DeleteMemoryFile(category, dl)

SpecStore == InitStore /\ [][NextStore]_vars

\* ------------------------------------------------------------------------
\* BaseAction: identifiers, parsing, storage helpers
\* ------------------------------------------------------------------------
\* _generate_memory_id: str(uuid.uuid4())[:6], a random token that is not
\* compared with the ids in use
generate_memory_id == MemoryIds

\* the pattern ^\[id\]\[mentioned at date\]\s*content(\s*\[links\])?$
IsTimestampedItem(line) ==
    /\ line.kind \in {"item", "bare"}
    /\ line.memory_id # NoId
    /\ line.content # NoContent

ItemOfLine(line) ==
    MemoryItem(line.memory_id, line.mentioned_at, line.content, line.links)

\* f"[{memory_id}][mentioned at {mentioned_at}] {content} [{links}]"
FormatLine(item) ==
    Line("item", item.memory_id, item.mentioned_at, item.content, item.links)

\* _read_memory_content / _save_memory_content / _append_memory_content
read_memory_content(fs, category, rd) == read_memory_file(fs, category, rd)

save_memory_content(fs, category, content, wr) ==
    write_memory_file(fs, category, content, wr)

append_memory_content(fs, category, content, rd, wr) ==
    append_memory_file(fs, category, content, rd, wr)

\* ------------------------------------------------------------------------
\* Collaborators
\* ------------------------------------------------------------------------
\* BaseLLMClient.simple_chat: the content when the completion succeeded, the
\* text "Error: <error>" when it reports success = false; the completion may
\* also raise
ErrorContent == "Error: timeout"

ErrorText == <<Line("raw", NoId, NoDate, ErrorContent, <<>>)>>

\* the embedding client: a fixed vector per text
embed(text) ==
    CASE text = "x" -> <<1, 0>>
      [] text = "y" -> <<1, 1>>
      [] OTHER -> <<0, 1>>

\* texts the embedding client raises on, per fault
EmbedRaises(fault, text) == fault = "embed_error" /\ text = "x"

\* the single I/O fault of a call
Faults == {"none", "read_error", "write_error", "write_truncated",
           "sidecar_error", "embed_error"}

ReadOutcome(fault) == IF fault = "read_error" THEN "error" ELSE "ok"

WriteOutcome(fault) ==
    CASE fault = "write_error" -> "error"
      [] fault = "write_truncated" -> "error_truncated"
      [] OTHER -> "ok"

\* datetime.now().strftime("%Y-%m-%d")
Today == "d1"

SessionDate(session_date) == IF session_date = NoDate THEN Today ELSE session_date

\* ------------------------------------------------------------------------
\* Embedding sidecar
\* ------------------------------------------------------------------------
EmbeddingRecord(n, item) ==
    [item_id |-> n, memory_id |-> item.memory_id, text |-> item.content,
     embedding |-> embed(item.content), line_number |-> n + 1]

SidecarRecords(embs, category) ==
    IF category \in DOMAIN embs THEN embs[category] ELSE <<>>

RECURSIVE AppendEmbeddings(_, _, _)
\* the loop of _add_memory_item_embedding: an item whose embedding raises is skipped
AppendEmbeddings(existing_embeddings, new_items, fault) ==
    IF new_items = <<>> THEN existing_embeddings
    ELSE LET item == Head(new_items)
         IN  IF item.content = NoContent \/ EmbedRaises(fault, item.content)
             THEN AppendEmbeddings(existing_embeddings, Tail(new_items), fault)
             ELSE AppendEmbeddings(
                      Append(existing_embeddings,
                             EmbeddingRecord(Len(existing_embeddings), item)),
                      Tail(new_items), fault)

\* a writer that saves only the records of the new items
add_memory_item_embedding_Rewrite(embs, enabled, category, new_items, fault) ==
    IF ~enabled \/ new_items = <<>> \/ fault = "sidecar_error"
    THEN embs
    ELSE [c \in DOMAIN embs \cup {category} |->
            IF c = category
            THEN AppendEmbeddings(<<>>, new_items, fault)
            ELSE embs[c]]

\* _add_memory_item_embedding: the sidecars after the call
add_memory_item_embedding(embs, enabled, category, new_items, fault) ==
    IF ~enabled \/ new_items = <<>> \/ fault = "sidecar_error"
    THEN embs
    ELSE [c \in DOMAIN embs \cup {category} |->
            IF c = category
            THEN AppendEmbeddings(SidecarRecords(embs, category), new_items, fault)
            ELSE embs[c]]

\* ------------------------------------------------------------------------
\* update_memory_with_suggestions
\* ------------------------------------------------------------------------
Operation(op, t, c) == [operation |-> op, target_id |-> t, memory_content |-> c]

\* target ids and contents of the parsed operations; a field the response
\* left out is None
Targets == MemoryIds \cup {NoId}

OperationUniverse ==
    {Operation("ADD", NoId, c) : c \in {"y", NoContent}}
    \cup {Operation("UPDATE", t, c) : t \in Targets, c \in {"x", NoContent}}
    \cup {Operation("DELETE", t, NoContent) : t \in Targets}
    \cup {Operation("TOUCH", t, NoContent) : t \in Targets}

\* the operations of the longer responses: complete ADD, UPDATE and DELETE
CoreOperations ==
    {Operation("ADD", NoId, "y")}
    \cup {Operation("UPDATE", t, "x") : t \in {"a", "b"}}
    \cup {Operation("DELETE", t, NoContent) : t \in {"a", "b"}}

\* the parsed responses: up to MaxOps operations of any kind, or MaxCoreOps
\* complete ones
OperationLists ==
    SeqsUpTo(OperationUniverse, MaxOps) \cup [1..MaxCoreOps -> CoreOperations]

\* _extract_memory_items_from_content: the lines that match the timestamped pattern
extract_memory_items_from_content(content) ==
    LET keep == SelectSeq(Split(content), IsTimestampedItem)
    IN  [i \in 1..Len(keep) |-> ItemOfLine(keep[i])]

\* _format_memory_items
format_memory_items(items) == [i \in 1..Len(items) |-> FormatLine(items[i])]

(* The working state of _execute_operations.  The lists hold references to
   the item dictionaries: heap maps a reference to the dictionary's current
   value, and all_items, new_items and updated_items are lists of references. *)
WorkingState(existing_items, ids) ==
    [heap |-> existing_items,
     all_items |-> [i \in 1..Len(existing_items) |-> i],
     new_items |-> <<>>,
     updated_items |-> <<>>,
     operation_executed |-> <<>>,
     ids |-> ids]

Deref(heap, refs) == [i \in 1..Len(refs) |-> heap[refs[i]]]

\* an ADD branch that puts the new item first
AddOperation_Prepend(st, operation, session_date) ==
    IF operation.memory_content = NoContent THEN st
    ELSE LET memory_item == MemoryItem(Head(st.ids), session_date,
                                       operation.memory_content, <<>>)
             ref == Len(st.heap) + 1
         IN  [st EXCEPT !.heap = Append(@, memory_item),
                        !.all_items = <<ref>> \o @,
                        !.new_items = Append(@, ref),
                        !.updated_items = Append(@, ref),
                        !.operation_executed = Append(@, operation),
                        !.ids = Tail(@)]

\* the ADD branch
AddOperation(st, operation, session_date) ==
    IF operation.memory_content = NoContent THEN st
    ELSE LET memory_item == MemoryItem(Head(st.ids), session_date,
                                       operation.memory_content, <<>>)
             ref == Len(st.heap) + 1
         IN  [st EXCEPT !.heap = Append(@, memory_item),
                        !.all_items = Append(@, ref),
                        !.new_items = Append(@, ref),
                        !.updated_items = Append(@, ref),
                        !.operation_executed = Append(@, operation),
                        !.ids = Tail(@)]

\* index in all_items of the first item with this id, 0 when there is none
FirstMatch(st, target_id) ==
    LET hits == {i \in 1..Len(st.all_items) :
                    st.heap[st.all_items[i]].memory_id = target_id}
    IN  IF hits = {} THEN 0 ELSE CHOOSE i \in hits : \A j \in hits : i <= j

\* an UPDATE branch that leaves an operation without a match out of the list
UpdateOperation_Unlisted(st, operation) ==
    IF operation.target_id = NoId \/ operation.memory_content = NoContent THEN st
    ELSE LET i == FirstMatch(st, operation.target_id)
         IN  IF i = 0
             THEN st
             ELSE [st EXCEPT !.heap[st.all_items[i]].content = operation.memory_content,
                             !.updated_items = Append(@, st.all_items[i]),
                             !.operation_executed = Append(@, operation)]

\* the UPDATE branch
UpdateOperation(st, operation) ==
    IF operation.target_id = NoId \/ operation.memory_content = NoContent THEN st
    ELSE LET i == FirstMatch(st, operation.target_id)
         IN  IF i = 0
             THEN [st EXCEPT !.operation_executed = Append(@, operation)]
             ELSE [st EXCEPT !.heap[st.all_items[i]].content = operation.memory_content,
                             !.updated_items = Append(@, st.all_items[i]),
                             !.operation_executed = Append(@, operation)]

RECURSIVE RemoveFirstEqual(_, _, _)
\* list.remove(item): drops the first element equal to item (dictionaries
\* compare by value)
RemoveFirstEqual(all_items, heap, value) ==
    IF all_items = <<>> THEN <<>>
    ELSE IF heap[Head(all_items)] = value THEN Tail(all_items)
    ELSE <<Head(all_items)>> \o RemoveFirstEqual(Tail(all_items), heap, value)

RECURSIVE DeleteLoop(_, _, _, _)
\* for item in all_items: if item["memory_id"] == target_id: all_items.remove(item)
\* (the list is changed while it is iterated: the iterator keeps its index)
DeleteLoop(all_items, i, heap, target_id) ==
    IF i > Len(all_items) THEN all_items
    ELSE IF heap[all_items[i]].memory_id = target_id
    THEN DeleteLoop(RemoveFirstEqual(all_items, heap, heap[all_items[i]]),
                    i + 1, heap, target_id)
    ELSE DeleteLoop(all_items, i + 1, heap, target_id)

\* the DELETE branch
DeleteOperation(st, operation) ==
    IF operation.target_id = NoId THEN st
    ELSE [st EXCEPT !.all_items = DeleteLoop(@, 1, st.heap, operation.target_id),
                    !.operation_executed = Append(@, operation)]

\* the TOUCH branch
TouchOperation(st, operation) ==
    IF operation.target_id = NoId THEN st
    ELSE [st EXCEPT !.operation_executed = Append(@, operation)]

ApplyOperation(st, operation, session_date) ==
    CASE operation.operation = "ADD" -> AddOperation(st, operation, session_date)
      [] operation.operation = "UPDATE" -> UpdateOperation(st, operation)
      [] operation.operation = "DELETE" -> DeleteOperation(st, operation)
      [] operation.operation = "TOUCH" -> TouchOperation(st, operation)
      [] OTHER -> st

RECURSIVE OperationLoop(_, _, _)
OperationLoop(st, operation_list, session_date) ==
    IF operation_list = <<>> THEN st
    ELSE OperationLoop(ApplyOperation(st, Head(operation_list), session_date),
                       Tail(operation_list), session_date)

\* _execute_operations: [files, embeddings, operation_executed, new_items]
execute_operations(fs, embs, enabled, category, operation_list, session_date, existing_items, generate_embeddings, ids, fault) ==
    LET st == OperationLoop(WorkingState(existing_items, ids), operation_list,
                            session_date)
        new_content == format_memory_items(Deref(st.heap, st.all_items))
        saved == save_memory_content(fs, category, new_content, WriteOutcome(fault))
        updated_items == Deref(st.heap, st.updated_items)
    IN  [files |-> saved.files,
         embeddings |->
            IF generate_embeddings /\ enabled /\ updated_items # <<>>
            THEN add_memory_item_embedding(embs, enabled, category, updated_items, fault)
            ELSE embs,
         operation_executed |-> st.operation_executed,
         new_items |-> Deref(st.heap, st.new_items)]

UpdateFailure == [success |-> FALSE, operation_executed |-> <<>>, new_memory_items |-> <<>>]

\* what the model call of _analyze_memory_operation_from_suggestion does:
\* it answers with operations, answers blank, reports success = false, or raises
ModelOutcomes == {"ok", "empty", "fail", "raise"}

\* execute: [files, embeddings, result]
update_memory_with_suggestions(fs, embs, enabled, category, session_date, generate_embeddings, llm, operation_list, ids, fault) ==
    IF category \notin BasicCategories \/ llm \in {"empty", "raise"}
    THEN [files |-> fs, embeddings |-> embs, result |-> UpdateFailure]
    ELSE LET existing_content == read_memory_content(fs, category, ReadOutcome(fault))
             existing_memory_items == extract_memory_items_from_content(existing_content)
             \* the text "Error: ..." holds no operation block
             parsed == IF llm = "fail" THEN <<>> ELSE operation_list
             done == execute_operations(fs, embs, enabled, category, parsed,
                                        SessionDate(session_date), existing_memory_items,
                                        generate_embeddings, ids, fault)
         IN  [files |-> done.files,
              embeddings |-> done.embeddings,
              result |-> [success |-> TRUE,
                          operation_executed |-> done.operation_executed,
                          new_memory_items |-> done.new_items]]

\* ------------------------------------------------------------------------
\* add_activity_memory
\* ------------------------------------------------------------------------
ModelLine(c) == Line("raw", NoId, NoDate, c, <<>>)

\* texts the formatting call answers with: up to MaxNewLines lines, each a
\* sentence or blank
ModelTexts ==
    SeqsUpTo({ModelLine(c) : c \in {"x", "y"}} \cup {EmptyLine}, MaxNewLines)
        \ {<<EmptyLine>>}

\* a test that takes only the text without any line for blank
IsBlank_EmptyOnly(text) == text = <<>>

\* not text.strip()
IsBlank(text) == \A i \in 1..Len(text) : text[i] = EmptyLine

NonBlankLines(text) == SelectSeq(text, LAMBDA l : l # EmptyLine)

\* _add_memory_ids_with_timestamp: one item per non-blank line
add_memory_ids_with_timestamp(content, session_date, ids) ==
    LET lines == NonBlankLines(content)
    IN  [i \in 1..Len(lines) |->
            MemoryItem(ids[i], session_date, lines[i].content, <<>>)]

IngestFailure == [success |-> FALSE, memory_items |-> <<>>]

\* execute: [files, embeddings, result]
add_activity_memory(fs, embs, enabled, session_date, generate_embeddings, llm, output, ids, fault) ==
    LET formatted_content ==
            CASE llm = "fail" -> ErrorText
              [] llm = "empty" -> <<>>
              [] OTHER -> output
        memory_items ==
            add_memory_ids_with_timestamp(formatted_content,
                                          SessionDate(session_date), ids)
        content_with_ids == format_memory_items(memory_items)
        appended == append_memory_content(fs, "activity", content_with_ids,
                                          ReadOutcome(fault), WriteOutcome(fault))
    IN  IF llm = "raise" \/ IsBlank(formatted_content)
        THEN [files |-> fs, embeddings |-> embs, result |-> IngestFailure]
        ELSE [files |-> appended.files,
              embeddings |->
                 IF appended.ok /\ generate_embeddings /\ enabled
                 THEN add_memory_item_embedding(embs, enabled, "activity",
                                                memory_items, fault)
                 ELSE embs,
              result |-> IF appended.ok
                         THEN [success |-> TRUE, memory_items |-> memory_items]
                         ELSE IngestFailure]

\* ------------------------------------------------------------------------
\* link_related_memories
\* ------------------------------------------------------------------------
\* a similarity num / sqrt(den2) with num >= 0, kept exact
Similarity(num, den2) == [num |-> num, den2 |-> den2]

ZeroSimilarity == Similarity(0, 1)

\* a >= b
SimGeq(a, b) == a.num * a.num * b.den2 >= b.num * b.num * a.den2

RECURSIVE DotFrom(_, _, _)
DotFrom(vec1, vec2, i) ==
    IF i > Len(vec1) THEN 0 ELSE vec1[i] * vec2[i] + DotFrom(vec1, vec2, i + 1)

\* _cosine_similarity
cosine_similarity(vec1, vec2) ==
    IF Len(vec1) # Len(vec2) THEN ZeroSimilarity
    ELSE LET dot_product == DotFrom(vec1, vec2, 1)
             magnitude1 == DotFrom(vec1, vec1, 1)
             magnitude2 == DotFrom(vec2, vec2, 1)
         IN  IF magnitude1 = 0 \/ magnitude2 = 0 THEN ZeroSimilarity
             ELSE Similarity(dot_product, magnitude1 * magnitude2)

\* _parse_memory_items: the lines that hold an item, each with its full_line
parse_memory_items(content) == SelectSeq(content, IsTimestampedItem)

\* _find_memory_item: <<>> for None
find_memory_item(fs, category, memory_id, fault) ==
    LET content == read_memory_content(fs, category, ReadOutcome(fault))
        hits == SelectSeq(parse_memory_items(content),
                          LAMBDA item : item.memory_id = memory_id)
    IN  IF hits = <<>> THEN <<>> ELSE <<Head(hits)>>

Candidate(emb_data, category, target_embedding) ==
    [memory_id |-> emb_data.memory_id, content |-> emb_data.text,
     category |-> category,
     similarity |-> cosine_similarity(target_embedding, emb_data.embedding)]

\* a collecting loop that does not skip the target's own records
CategoryCandidates_NoSkip(embeddings_data, category, target_embedding, exclude_memory_id) ==
    [i \in 1..Len(embeddings_data) |->
        Candidate(embeddings_data[i], category, target_embedding)]

\* the loop over one sidecar in _find_related_memories
CategoryCandidates(embeddings_data, category, target_embedding, exclude_memory_id) ==
    LET kept == SelectSeq(embeddings_data,
                          LAMBDA emb_data : emb_data.memory_id # exclude_memory_id)
    IN  [i \in 1..Len(kept) |-> Candidate(kept[i], category, target_embedding)]

RECURSIVE AllCandidates(_, _, _, _, _)
\* a sidecar that is missing or fails to load gives no candidate
AllCandidates(embs, search_categories, target_embedding, exclude_memory_id, fault) ==
    IF search_categories = <<>> THEN <<>>
    ELSE LET category == Head(search_categories)
             here == IF category \in DOMAIN embs /\ fault # "sidecar_error"
                     THEN CategoryCandidates(embs[category], category,
                                             target_embedding, exclude_memory_id)
                     ELSE <<>>
         IN  here \o AllCandidates(embs, Tail(search_categories), target_embedding,
                                   exclude_memory_id, fault)

RECURSIVE SortBySimilarity(_)
\* list.sort(key = similarity, reverse = True): stable
SortBySimilarity(candidates) ==
    IF candidates = <<>> THEN <<>>
    ELSE LET n == Len(candidates)
             c == candidates[n]
             sorted == SortBySimilarity(SubSeq(candidates, 1, n - 1))
             k == Cardinality({i \in 1..Len(sorted) :
                                 SimGeq(sorted[i].similarity, c.similarity)})
         IN  SubSeq(sorted, 1, k) \o <<c>> \o SubSeq(sorted, k + 1, Len(sorted))

Take(seq, n) == SubSeq(seq, 1, IF n < Len(seq) THEN n ELSE Len(seq))

\* a search that returns every filtered candidate, without the cut to top_k
find_related_memories_Uncut(embs, target_embedding, search_categories, top_k, min_similarity, exclude_memory_id, fault) ==
    LET all_candidates ==
            SortBySimilarity(AllCandidates(embs, search_categories, target_embedding,
                                           exclude_memory_id, fault))
    IN  SelectSeq(Take(all_candidates, top_k * 2),
                  LAMBDA candidate : SimGeq(candidate.similarity, min_similarity))

\* _find_related_memories (filter_with_llm is False)
find_related_memories(embs, target_embedding, search_categories, top_k, min_similarity, exclude_memory_id, fault) ==
    LET all_candidates ==
            SortBySimilarity(AllCandidates(embs, search_categories, target_embedding,
                                           exclude_memory_id, fault))
        filtered_results ==
            SelectSeq(Take(all_candidates, top_k * 2),
                      LAMBDA candidate : SimGeq(candidate.similarity, min_similarity))
    IN  Take(SortBySimilarity(filtered_results), top_k)

\* _append_links_to_memory: the files after it
append_links_to_memory(fs, category, memory_id, related_memories, fault) ==
    LET content == read_memory_content(fs, category, ReadOutcome(fault))
        memory_items == parse_memory_items(content)
        updated_lines ==
            [i \in 1..Len(memory_items) |->
                IF memory_items[i].memory_id = memory_id
                THEN Line("item", memory_items[i].memory_id,
                          memory_items[i].mentioned_at, memory_items[i].content,
                          related_memories)
                ELSE memory_items[i]]
    IN  IF content = <<>> THEN fs
        ELSE save_memory_content(fs, category, updated_lines, WriteOutcome(fault)).files

\* the categories searched by default, in configuration order
DefaultSearchCategories == <<"profile", "event", "activity">>

NoSearchCategories == [given |-> FALSE, list |-> <<>>]

SearchCategories(search_categories) ==
    IF search_categories.given THEN search_categories.list ELSE DefaultSearchCategories

LinkIds(related_memories) ==
    [i \in 1..Len(related_memories) |-> related_memories[i].memory_id]

LinkFailure == [success |-> FALSE, linked_memory_ids |-> <<>>, total_items_linked |-> 0]

RECURSIVE LinkAllLoop(_, _, _, _, _, _, _, _, _, _)
\* the loop of _link_all_items_in_category: [files, raised, total_linked]
LinkAllLoop(fs, embs, category, memory_items, top_k, min_similarity, search_categories, write_to_memory, fault, total_linked) ==
    IF memory_items = <<>>
    THEN [files |-> fs, raised |-> FALSE, total_linked |-> total_linked]
    ELSE LET item == Head(memory_items)
             link_ids == LinkIds(find_related_memories(embs, embed(item.content),
                             search_categories, top_k, min_similarity,
                             item.memory_id, fault))
             written == write_to_memory /\ link_ids # <<>>
         IN  IF EmbedRaises(fault, item.content)
             THEN [files |-> fs, raised |-> TRUE, total_linked |-> total_linked]
             ELSE LinkAllLoop(
                      IF written
                      THEN append_links_to_memory(fs, category, item.memory_id,
                                                  link_ids, fault)
                      ELSE fs,
                      embs, category, Tail(memory_items), top_k, min_similarity,
                      search_categories, write_to_memory, fault,
                      IF written THEN total_linked + 1 ELSE total_linked)

\* _link_all_items_in_category: [files, result]
link_all_items_in_category(fs, embs, category, top_k, min_similarity, search_categories, write_to_memory, fault) ==
    LET content == read_memory_content(fs, category, ReadOutcome(fault))
        memory_items == parse_memory_items(content)
        done == LinkAllLoop(fs, embs, category, memory_items, top_k, min_similarity,
                            SearchCategories(search_categories), write_to_memory,
                            fault, 0)
    IN  IF content = <<>> \/ memory_items = <<>>
        THEN [files |-> fs, result |-> LinkFailure]
        ELSE [files |-> done.files,
              result |-> IF done.raised THEN LinkFailure
                         ELSE [success |-> TRUE, linked_memory_ids |-> <<>>,
                               total_items_linked |-> done.total_linked]]

\* execute: [files, result]
link_related_memories(fs, embs, enabled, category, memory_id, top_k, min_similarity, search_categories, link_all_items, write_to_memory, fault) ==
    LET found == find_memory_item(fs, category, memory_id, fault)
        target_memory == found[1]
        related_memories ==
            find_related_memories(embs, embed(target_memory.content),
                                  SearchCategories(search_categories), top_k,
                                  min_similarity, memory_id, fault)
        link_ids == LinkIds(related_memories)
    IN  IF ~enabled \/ category \notin BasicCategories
        THEN [files |-> fs, result |-> LinkFailure]
        ELSE IF link_all_items
        THEN link_all_items_in_category(fs, embs, category, top_k, min_similarity,
                                        search_categories, write_to_memory, fault)
        ELSE IF memory_id = NoId \/ found = <<>>
                \/ EmbedRaises(fault, target_memory.content)
        THEN [files |-> fs, result |-> LinkFailure]
        ELSE [files |-> IF write_to_memory /\ link_ids # <<>>
                        THEN append_links_to_memory(fs, category, memory_id,
                                                    link_ids, fault)
                        ELSE fs,
              result |-> [success |-> TRUE, linked_memory_ids |-> link_ids,
                          total_items_linked |-> 0]]

\* ------------------------------------------------------------------------
\* The operations called on a store
\* ------------------------------------------------------------------------
Idle == call.op = "none"

\* number of identifiers a call generates
NumAdds(operation_list) ==
    Cardinality({i \in 1..Len(operation_list) :
                    /\ operation_list[i].operation = "ADD"
                    /\ operation_list[i].memory_content # NoContent})

IdSeqs(n) == [1..n -> generate_memory_id]

\* session_date arguments: left out, or a date
SessionDates == {NoDate, "d2"}

UpdateMemoryWithSuggestions(category, session_date, generate_embeddings, llm, operation_list, ids, fault) ==
    LET r == update_memory_with_suggestions(files, embeddings, embeddings_enabled,
                 category, session_date, generate_embeddings, llm, operation_list,
                 ids, fault)
    IN  /\ call' = [op |-> "update_memory_with_suggestions", category |-> category,
                    session_date |-> session_date,
                    generate_embeddings |-> generate_embeddings]
        /\ env' = [llm |-> llm, operation_list |-> operation_list, ids |-> ids,
                   fault |-> fault]
        /\ pre' = Snapshot
        /\ files' = r.files
        /\ embeddings' = r.embeddings
        /\ result' = r.result
        /\ UNCHANGED embeddings_enabled

AddActivityMemory(session_date, generate_embeddings, llm, output, ids, fault) ==
    LET r == add_activity_memory(files, embeddings, embeddings_enabled, session_date,
                 generate_embeddings, llm, output, ids, fault)
    IN  /\ call' = [op |-> "add_activity_memory", category |-> "activity",
                    session_date |-> session_date,
                    generate_embeddings |-> generate_embeddings]
        /\ env' = [llm |-> llm, output |-> output, ids |-> ids, fault |-> fault]
        /\ pre' = Snapshot
        /\ files' = r.files
        /\ embeddings' = r.embeddings
        /\ result' = r.result
        /\ UNCHANGED embeddings_enabled

\* top_k and min_similarity arguments (0.3 is the default, 1.0 keeps exact matches)
TopKs == 1..MaxTopK

MinSimilarities == {Similarity(3, 100), Similarity(1, 1)}

SearchCategoryChoices == {NoSearchCategories, [given |-> TRUE, list |-> <<"profile">>]}

LinkRelatedMemories(category, memory_id, top_k, min_similarity, search_categories, link_all_items, write_to_memory, fault) ==
    LET r == link_related_memories(files, embeddings, embeddings_enabled, category,
                 memory_id, top_k, min_similarity, search_categories, link_all_items,
                 write_to_memory, fault)
    IN  /\ call' = [op |-> "link_related_memories", category |-> category,
                    memory_id |-> memory_id, top_k |-> top_k,
                    min_similarity |-> min_similarity,
                    search_categories |-> search_categories,
                    link_all_items |-> link_all_items,
                    write_to_memory |-> write_to_memory]
        /\ env' = [fault |-> fault]
        /\ pre' = Snapshot
        /\ files' = r.files
        /\ result' = r.result
        /\ UNCHANGED <<embeddings, embeddings_enabled>>

\* stores an agent is constructed on
ItemA == Line("item", "a", "d1", "z", <<>>)
ItemB == Line("item", "b", "d1", "z", <<>>)
ItemC == Line("item", "c", "d1", "y", <<>>)

StoredRecord(n, id, text, v) ==
    [item_id |-> n, memory_id |-> id, text |-> text, embedding |-> v,
     line_number |-> n + 1]

InitScenarios ==
    { \* a new memory directory
      [files |-> <<>>, embeddings |-> <<>>, enabled |-> TRUE],
      \* two profile items and one activity item, all embedded; the activity
      \* sidecar also keeps a record of an older version of item a
      [files |-> [c \in {"profile", "activity"} |->
                    IF c = "profile" THEN <<ItemA, ItemB>> ELSE <<ItemC>>],
       embeddings |-> [c \in {"profile", "activity"} |->
                    IF c = "profile"
                    THEN <<StoredRecord(0, "a", "z", <<0, 1>>),
                           StoredRecord(1, "b", "z", <<0, 1>>)>>
                    ELSE <<StoredRecord(0, "c", "y", <<1, 1>>),
                           StoredRecord(1, "a", "x", <<1, 0>>)>>],
       enabled |-> TRUE],
      \* the same files with embeddings switched off
      [files |-> [c \in {"profile", "activity"} |->
                    IF c = "profile" THEN <<ItemA, ItemB>> ELSE <<ItemC>>],
       embeddings |-> <<>>,
       enabled |-> FALSE],
      \* a profile holding a line without link bracket, a legacy line,
      \* a linked item and a free-text line
      [files |-> [c \in {"profile"} |->
                    <<Line("bare", "a", "d1", "z", <<>>),
                      Line("legacy", "c", NoDate, "y", <<>>),
                      Line("item", "b", "d1", "z", <<"a">>),
                      Line("raw", NoId, NoDate, "y", <<>>)>>],
       embeddings |-> [c \in {"profile"} |->
                    <<StoredRecord(0, "a", "z", <<0, 1>>),
                      StoredRecord(1, "b", "z", <<1, 1>>)>>],
       enabled |-> TRUE],
      \* a profile in which two items carry the same id
      [files |-> [c \in {"profile"} |->
                    <<ItemA, Line("item", "a", "d1", "x", <<>>), ItemB>>],
       embeddings |-> [c \in {"profile"} |->
                    <<StoredRecord(0, "a", "z", <<0, 1>>),
                      StoredRecord(1, "a", "x", <<1, 0>>),
                      StoredRecord(2, "b", "z", <<0, 1>>)>>],
       enabled |-> TRUE] }

Init ==
    \E sc \in InitScenarios :
        /\ files = sc.files
        /\ embeddings = sc.embeddings
        /\ embeddings_enabled = sc.enabled
        /\ call = NoCall
        /\ env = [fault |-> "none"]
        /\ pre = Snapshot
        /\ result = [success |-> TRUE]
        /\ agent = AgentIdle
    /\ workers = NoWorkers

Next ==
    \/ /\ Idle
       /\ UNCHANGED <<agent, workers>>
       /\ \E session_date \in SessionDates, generate_embeddings \in BOOLEAN :
             UpdateMemoryWithSuggestions("hobby", session_date, generate_embeddings,
                                         "ok", <<>>, <<>>, "none")
    \/ /\ Idle
       /\ UNCHANGED <<agent, workers>>
       /\ \E category \in BasicCategories, session_date \in SessionDates,
             generate_embeddings \in BOOLEAN, fault \in Faults :
             \/ \E operation_list \in OperationLists :
                   \E ids \in IdSeqs(NumAdds(operation_list)) :
                       UpdateMemoryWithSuggestions(category, session_date,
                           generate_embeddings, "ok", operation_list, ids, fault)
             \/ \E llm \in ModelOutcomes \ {"ok"} :
                   UpdateMemoryWithSuggestions(category, session_date,
                       generate_embeddings, llm, <<>>, <<>>, fault)
    \/ /\ Idle
       /\ UNCHANGED <<agent, workers>>
       /\ \E session_date \in SessionDates, generate_embeddings \in BOOLEAN,
             fault \in Faults :
             \/ \E output \in ModelTexts :
                   \E ids \in IdSeqs(Len(NonBlankLines(output))) :
                       AddActivityMemory(session_date, generate_embeddings, "ok",
                                         output, ids, fault)
             \/ \E llm \in ModelOutcomes \ {"ok"} :
                   AddActivityMemory(session_date, generate_embeddings, llm, <<>>,
                                     <<"a">>, fault)
    \/ /\ Idle
       /\ UNCHANGED <<agent, workers>>
       /\ \E category \in BasicCategories \cup {"hobby"}, memory_id \in Targets,
             top_k \in TopKs, min_similarity \in MinSimilarities,
             search_categories \in SearchCategoryChoices,
             link_all_items \in BOOLEAN, write_to_memory \in BOOLEAN,
             fault \in Faults :
             LinkRelatedMemories(category, memory_id, top_k, min_similarity,
                                 search_categories, link_all_items, write_to_memory,
                                 fault)

Spec == Init /\ [][Next]_vars

\* ------------------------------------------------------------------------
\* MemoryAgent.run, stop_action and reset_stop_flag
\* ------------------------------------------------------------------------
\* the functions the model asks for: four registered actions and a name the
\* registry does not hold; the arguments are JSON or not
ToolNames == {"add_activity_memory", "update_memory_with_suggestions",
              "link_related_memories", "cluster_memories",
              "get_available_categories"}

RegisteredActions == ToolNames \ {"get_available_categories"}

ToolCall(function_name, arguments) ==
    [function_name |-> function_name, arguments |-> arguments]

ToolCalls ==
    {ToolCall(n, "json") : n \in ToolNames}
    \cup {ToolCall("add_activity_memory", "not_json")}

\* what chat_completion gives back: it raises, or an LLMResponse
Response(raised, success, complete, tool_calls) ==
    [raised |-> raised, success |-> success, complete |-> complete,
     tool_calls |-> tool_calls]

Responses ==
    {Response(TRUE, FALSE, FALSE, <<>>), Response(FALSE, FALSE, FALSE, <<>>)}
    \cup {Response(FALSE, TRUE, complete, tool_calls) :
            complete \in BOOLEAN, tool_calls \in SeqsUpTo(ToolCalls, MaxToolCalls)}

\* a dispatch that looks at the tool calls before the completion sentinel
Dispatch_ToolsFirst(response) ==
    IF response.raised \/ ~response.success THEN "break"
    ELSE IF response.tool_calls # <<>> THEN "tools"
    ELSE IF response.complete THEN "break"
    ELSE "continue"

\* what the loop body does with a response: leave the loop, execute the tool
\* calls, or go on to the next iteration
Dispatch(response) ==
    IF response.raised \/ ~response.success THEN "break"
    ELSE IF response.complete THEN "break"
    ELSE IF response.tool_calls # <<>> THEN "tools"
    ELSE "continue"

\* a loop that runs once more than asked
MoreIterations_OneMore(n, max_iterations) == n <= max_iterations

\* for iteration in range(max_iterations): after n iterations another follows
MoreIterations(n, max_iterations) == n < max_iterations

\* the statements after the loop: the entry for a run that used up its
\* iterations, and the return of results
Finalize(a) ==
    [a EXCEPT !.pc = "returned",
              !.processing_log =
                  IF a.iterations >= a.max_iterations THEN Append(@, "maximum") ELSE @]

\* the end of an iteration of the loop
EndIteration(a) ==
    IF MoreIterations(a.iteration, a.max_iterations)
    THEN [a EXCEPT !.pc = "loop", !.pending = <<>>]
    ELSE Finalize([a EXCEPT !.pending = <<>>])

\* the messages of the conversation; a tool call is identified by the
\* iteration of its response and its place in it
Message(role, tool_calls, tool_call_id) ==
    [role |-> role, tool_calls |-> tool_calls, tool_call_id |-> tool_call_id]

NoToolCallId == <<>>

SystemMessage == Message("system", <<>>, NoToolCallId)

\* assistant_message, with the ids of response.tool_calls
AssistantMessage(iteration, tool_calls) ==
    Message("assistant", [i \in 1..Len(tool_calls) |-> <<iteration, i>>], NoToolCallId)

\* tool_message
ToolMessage(iteration, position) == Message("tool", <<>>, <<iteration, position>>)

StoreUnchanged ==
    UNCHANGED <<files, embeddings, embeddings_enabled, call, env, pre, result, workers>>

\* run is called: the input checks, the results record, the first iteration
Run(valid, max_iterations) ==
    /\ agent.pc = "idle"
    /\ agent' =
         IF ~valid
         THEN [agent EXCEPT !.pc = "returned", !.success = FALSE,
                            !.max_iterations = max_iterations]
         ELSE EndIteration([agent EXCEPT !.max_iterations = max_iterations,
                                         !.messages = <<SystemMessage>>])
    /\ StoreUnchanged

\* the agent after one model request of the loop
AfterResponse(a, response) ==
    LET n == a.iteration + 1
        ok == ~response.raised /\ response.success
        b == [a EXCEPT !.iteration = n,
                       !.iterations = n,
                       !.response = response,
                       !.requests = @ + 1,
                       !.clean = @ /\ ok /\ ~response.complete,
                       !.complete_at =
                           IF ok /\ response.complete /\ @ = 0 THEN n ELSE @]
        todo == Dispatch(response)
        entry == CASE response.raised -> <<"error">>
                   [] response.success /\ response.complete -> <<"completed">>
                   [] OTHER -> <<>>
    IN  CASE todo = "break" ->
                 Finalize([b EXCEPT !.processing_log = @ \o entry])
          [] todo = "tools" ->
                 [b EXCEPT !.pc = "tools", !.pending = response.tool_calls,
                           !.messages =
                               Append(@, AssistantMessage(n, response.tool_calls))]
          [] OTHER -> EndIteration([b EXCEPT !.messages =
                                                 Append(@, AssistantMessage(n, <<>>))])

\* one model request of the loop and what the loop does with the response
ChatCompletion(response) ==
    /\ agent.pc = "loop"
    /\ agent' = AfterResponse(agent, response)
    /\ StoreUnchanged

\* a log that puts the newest record first
LogCall_Prepend(function_calls, record) == record \o function_calls

\* results["function_calls"].append(call_record)
LogCall(function_calls, record) == function_calls \o record

\* the tool call is done: its record is added and the next one is taken up
AfterToolCall(a, record) ==
    LET b == [a EXCEPT !.function_calls = LogCall(@, record),
                       !.tool_messages =
                           @ \o [i \in 1..Len(record) |->
                                    [function_name |-> record[i].function_name,
                                     success |-> record[i].success,
                                     available_functions |->
                                         record[i].available_functions]],
                       !.processing_log = @ \o [i \in 1..Len(record) |-> "called"],
                       !.messages =
                           @ \o [i \in 1..Len(record) |->
                                    ToolMessage(a.iteration,
                                        Len(a.response.tool_calls) - Len(a.pending) + 1)],
                       !.pending = Tail(@)]
    IN  IF b.pending = <<>> THEN EndIteration(b) ELSE b

\* a result for an unknown function that does not list the registry
CallRecord_NoList(function_name, success) ==
    <<[iteration |-> agent.iteration, function_name |-> function_name,
       success |-> success, available_functions |-> {}]>>

\* call_record; available_functions is the list a result for an unknown
\* function carries, empty in every other result
CallRecord(function_name, success) ==
    <<[iteration |-> agent.iteration, function_name |-> function_name,
       success |-> success,
       available_functions |->
           IF function_name \in RegisteredActions THEN {} ELSE RegisteredActions]>>

\* the operation the tool call executed, as the action itself saw it: its
\* name, its place among the tool calls of the response, and its result
Execution(function_name, success) ==
    [iteration |-> agent.iteration,
     position |-> Len(agent.response.tool_calls) - Len(agent.pending) + 1,
     function_name |-> function_name, success |-> success]

\* the agent after a tool call that executed a registered action
AfterExecution(a, record, execution) ==
    [AfterToolCall(a, record) EXCEPT !.executed = Append(@, execution)]

AtToolCall(function_name, arguments) ==
    /\ agent.pc = "tools"
    /\ Head(agent.pending) = ToolCall(function_name, arguments)

\* json.loads raises JSONDecodeError: continue
SkipToolCall ==
    /\ agent.pc = "tools"
    /\ Head(agent.pending).arguments = "not_json"
    /\ agent' = AfterToolCall(agent, <<>>)
    /\ StoreUnchanged

\* call_function with a name the registry does not hold
CallUnknownFunction ==
    /\ agent.pc = "tools"
    /\ Head(agent.pending).arguments = "json"
    /\ Head(agent.pending).function_name \notin RegisteredActions
    /\ agent' = AfterToolCall(agent,
                    CallRecord(Head(agent.pending).function_name, FALSE))
    /\ StoreUnchanged

\* what the collaborators do during the tool calls of a run
RunModelOutcomes == {"ok", "raise"}

RunFaults == {"none", "write_error"}

CallAddActivityMemory(llm, ids, fault) ==
    /\ AtToolCall("add_activity_memory", "json")
    /\ AddActivityMemory("d2", TRUE, llm, <<ModelLine("y")>>, ids, fault)
    /\ agent' = AfterExecution(agent,
                    CallRecord("add_activity_memory", result'.success),
                    Execution(call'.op, result'.success))
    /\ UNCHANGED workers

CallUpdateMemoryWithSuggestions(llm, fault) ==
    /\ AtToolCall("update_memory_with_suggestions", "json")
    /\ UpdateMemoryWithSuggestions("activity", "d2", TRUE, llm,
           <<Operation("DELETE", "a", NoContent)>>, <<>>, fault)
    /\ agent' = AfterExecution(agent,
                    CallRecord("update_memory_with_suggestions", result'.success),
                    Execution(call'.op, result'.success))
    /\ UNCHANGED workers

CallLinkRelatedMemories(fault) ==
    /\ AtToolCall("link_related_memories", "json")
    /\ LinkRelatedMemories("activity", NoId, 1, Similarity(3, 100),
                           NoSearchCategories, TRUE, TRUE, fault)
    /\ agent' = AfterExecution(agent,
                    CallRecord("link_related_memories", result'.success),
                    Execution(call'.op, result'.success))
    /\ UNCHANGED workers

\* a call_function that lets what an action raises go on to its caller
CallClusterMemories_Propagates(raises) ==
    /\ AtToolCall("cluster_memories", "json")
    /\ call' = [op |-> "cluster_memories"]
    /\ env' = [fault |-> IF raises THEN "raise" ELSE "none"]
    /\ pre' = Snapshot
    /\ result' = [success |-> ~raises]
    /\ agent' = IF raises
                THEN [agent EXCEPT !.pc = "raised",
                                   !.executed = Append(@, Execution("cluster_memories", FALSE))]
                ELSE AfterExecution(agent, CallRecord("cluster_memories", TRUE),
                         Execution("cluster_memories", TRUE))
    /\ UNCHANGED <<files, embeddings, embeddings_enabled, workers>>

\* cluster_memories in a run whose clustering responses name no cluster:
\* execute writes no file; it has no try block, so what raises in it (a model
\* call, an item without memory_id) reaches call_function, which turns it
\* into a failure result
CallClusterMemories(raises) ==
    /\ AtToolCall("cluster_memories", "json")
    /\ call' = [op |-> "cluster_memories"]
    /\ env' = [fault |-> IF raises THEN "raise" ELSE "none"]
    /\ pre' = Snapshot
    /\ result' = [success |-> ~raises]
    /\ agent' = AfterExecution(agent, CallRecord("cluster_memories", ~raises),
                    Execution("cluster_memories", ~raises))
    /\ UNCHANGED <<files, embeddings, embeddings_enabled, workers>>

\* stop_action, called from another thread at any time
StopAction ==
    /\ agent' = [agent EXCEPT !.stop_flag = TRUE,
                              !.stop_requests =
                                  IF agent.pc \in {"loop", "tools"} /\ @ = -1
                                  THEN agent.requests ELSE @]
    /\ StoreUnchanged

\* reset_stop_flag
ResetStopFlag ==
    /\ agent' = [agent EXCEPT !.stop_flag = FALSE, !.stop_requests = -1]
    /\ StoreUnchanged

\* an agent constructed on a new memory directory
InitRun ==
    /\ files = <<>>
    /\ embeddings = <<>>
    /\ embeddings_enabled = TRUE
    /\ call = NoCall
    /\ env = [fault |-> "none"]
    /\ pre = Snapshot
    /\ result = [success |-> TRUE]
    /\ agent = AgentIdle
    /\ workers = NoWorkers

\* the steps of the thread that called run
RunNext ==
    \/ \E valid \in BOOLEAN, max_iterations \in 0..MaxIterations :
          Run(valid, max_iterations)
    \/ \E response \in Responses : ChatCompletion(response)
    \/ SkipToolCall
    \/ CallUnknownFunction
    \/ \E fault \in RunFaults :
          \/ CallAddActivityMemory("ok", <<"a">>, fault)
          \/ CallAddActivityMemory("raise", <<>>, fault)
    \/ \E llm \in RunModelOutcomes, fault \in RunFaults :
          CallUpdateMemoryWithSuggestions(llm, fault)
    \/ \E fault \in RunFaults : CallLinkRelatedMemories(fault)
    \/ \E raises \in BOOLEAN : CallClusterMemories(raises)

NextRun == RunNext \/ StopAction \/ ResetStopFlag

SpecRun == InitRun /\ [][NextRun]_vars

\* the thread that called run goes on: while it is in the loop, the model
\* request or the tool call it is at comes to an end
RunAdvances ==
    \/ /\ agent.pc = "loop"
       /\ \E response \in Responses : agent' = AfterResponse(agent, response)
    \/ /\ agent.pc = "tools"
       /\ \/ agent' = AfterToolCall(agent, <<>>)
          \/ agent' = AfterToolCall(agent,
                          CallRecord(Head(agent.pending).function_name, FALSE))
          \/ \E success \in BOOLEAN :
                agent' = AfterExecution(agent,
                             CallRecord(Head(agent.pending).function_name, success),
                             Execution(Head(agent.pending).function_name, success))

FairSpecRun == SpecRun /\ WF_agent(RunAdvances)

\* ------------------------------------------------------------------------
\* Reconciling update: what a call leaves in the category file
\* ------------------------------------------------------------------------
UpdateCalled == call.op = "update_memory_with_suggestions"

StoreFaults == {"read_error", "write_error", "write_truncated"}

\* the text of a category in a store, "" when there is no file
StoredText(fs, category) == read_memory_file(fs, category, "ok")

PreText == StoredText(pre.files, call.category)
PostText == StoredText(files, call.category)

PreItems == extract_memory_items_from_content(PreText)

ItemIds(items) == {items[i].memory_id : i \in 1..Len(items)}

DistinctIds(items) ==
    \A i, j \in 1..Len(items) : items[i].memory_id = items[j].memory_id => i = j

\* the call the claims on the reconciling update are about: a valid category
\* whose file holds items with pairwise distinct ids, a parsed response, and
\* a store that reads and writes
ReconcilingCase ==
    /\ UpdateCalled
    /\ call.category \in BasicCategories
    /\ env.llm = "ok"
    /\ env.fault \notin StoreFaults
    /\ \A i \in 1..Len(PreText) : IsTimestampedItem(PreText[i])
    /\ DistinctIds(PreItems)

RECURSIVE Reconciled(_, _, _, _)
\* the operations applied in order to a list of items, as the claim words them
Reconciled(items, operation_list, ids, session_date) ==
    IF operation_list = <<>> THEN items
    ELSE LET o == Head(operation_list)
             rest == Tail(operation_list)
         IN  CASE o.operation = "ADD" /\ o.memory_content # NoContent ->
                    Reconciled(Append(items, MemoryItem(Head(ids), session_date,
                                                        o.memory_content, <<>>)),
                               rest, Tail(ids), session_date)
               [] /\ o.operation = "UPDATE"
                  /\ o.target_id # NoId
                  /\ o.memory_content # NoContent ->
                    Reconciled([i \in 1..Len(items) |->
                                   IF items[i].memory_id = o.target_id
                                   THEN [items[i] EXCEPT !.content = o.memory_content]
                                   ELSE items[i]],
                               rest, ids, session_date)
               [] o.operation = "DELETE" /\ o.target_id # NoId ->
                    Reconciled(SelectSeq(items, LAMBDA it : it.memory_id # o.target_id),
                               rest, ids, session_date)
               [] OTHER -> Reconciled(items, rest, ids, session_date)

FileIsReconciled ==
    PostText = format_memory_items(
                   Reconciled(PreItems, env.operation_list, env.ids,
                              SessionDate(call.session_date)))

\* the generated ids differ from one another and from the ids in the file
GeneratedIdsFresh ==
    /\ \A i, j \in 1..Len(env.ids) : env.ids[i] = env.ids[j] => i = j
    /\ \A i \in 1..Len(env.ids) : env.ids[i] \notin ItemIds(PreItems)

OperationsApplied ==
    /\ UpdateCalled
    /\ call.category \in BasicCategories
    /\ env.llm = "ok"

\* the items the call read
ItemsRead ==
    extract_memory_items_from_content(
        read_memory_content(pre.files, call.category, ReadOutcome(env.fault)))

\* the working copy after the first n operations of a list
WorkingCopyAfter(operation_list, n) ==
    LET st == OperationLoop(WorkingState(ItemsRead, env.ids),
                            SubSeq(operation_list, 1, n),
                            SessionDate(call.session_date))
    IN  Deref(st.heap, st.all_items)

\* the operation carries the fields its kind needs
IsComplete(o) ==
    CASE o.operation = "ADD" -> o.memory_content # NoContent
      [] o.operation = "UPDATE" -> o.target_id # NoId /\ o.memory_content # NoContent
      [] OTHER -> o.target_id # NoId

\* operation i is an UPDATE, DELETE or TOUCH whose target is in no item of
\* the working copy it is applied to
TargetMissing(i) ==
    LET o == env.operation_list[i]
    IN  /\ o.operation \in {"UPDATE", "DELETE", "TOUCH"}
        /\ IsComplete(o)
        /\ o.target_id \notin ItemIds(WorkingCopyAfter(env.operation_list, i - 1))

Without(seq, i) == SubSeq(seq, 1, i - 1) \o SubSeq(seq, i + 1, Len(seq))

\* C7: in a reconciling update, an UPDATE, DELETE or TOUCH whose target id is
\* in no item of the working copy changes no item and does not stop the other
\* operations (the file written is the one the call writes without that
\* operation), is listed in operation_executed, and the call reports success.
C7_MissingTarget ==
    OperationsApplied =>
        \A i \in 1..Len(env.operation_list) :
            TargetMissing(i) =>
                /\ result.success
                /\ result.operation_executed = SelectSeq(env.operation_list, IsComplete)
                /\ WorkingCopyAfter(env.operation_list, i)
                       = WorkingCopyAfter(env.operation_list, i - 1)
                /\ env.fault \notin StoreFaults =>
                       PostText = format_memory_items(
                           WorkingCopyAfter(Without(env.operation_list, i),
                                            Len(env.operation_list) - 1))

\* UPDATE of an id the file lacks, followed by an UPDATE that took effect
C7_Witness ==
    /\ OperationsApplied
    /\ env.fault = "none"
    /\ PreText = <<ItemA, ItemB>>
    /\ env.operation_list = <<Operation("UPDATE", "c", "x"),
                              Operation("UPDATE", "a", "x")>>
    /\ TargetMissing(1)
    /\ result.success
    /\ result.operation_executed = env.operation_list
    /\ PostText = <<Line("item", "a", "d1", "x", <<>>), ItemB>>

\* ------------------------------------------------------------------------
\* Ingest: the model call fails
\* ------------------------------------------------------------------------
IngestCalled == call.op = "add_activity_memory"

\* C6: when the model call of add_activity_memory reports success = false,
\* the operation returns a failure result, appends no line to the activity
\* category and adds no record to its sidecar.
C6_IngestModelFailure ==
    IngestCalled /\ env.llm = "fail" =>
        /\ ~result.success
        /\ files = pre.files
        /\ embeddings = pre.embeddings

\* ------------------------------------------------------------------------
\* Store writes that fail inside an operation
\* ------------------------------------------------------------------------
LinkCalled == call.op = "link_related_memories"

WriteFaults == {"write_error", "write_truncated"}

\* the files the link call leaves when nothing fails
LinkedFiles ==
    link_related_memories(pre.files, pre.embeddings, embeddings_enabled,
        call.category, call.memory_id, call.top_k, call.min_similarity,
        call.search_categories, call.link_all_items, call.write_to_memory,
        "none").files

\* the call got as far as writing the category file
WritePerformed ==
    \/ UpdateCalled /\ call.category \in BasicCategories /\ env.llm \in {"ok", "fail"}
    \/ IngestCalled /\ (env.llm = "fail" \/ (env.llm = "ok" /\ ~IsBlank(env.output)))
    \/ LinkCalled /\ LinkedFiles # pre.files

\* C8: whenever a store write performed by an operation fails, the operation
\* returns a failure result.
C8_StorageFailurePropagation ==
    WritePerformed /\ env.fault \in WriteFaults => ~result.success

\* ------------------------------------------------------------------------
\* Linking: the target is never its own relation
\* ------------------------------------------------------------------------
Range(seq) == {seq[i] : i \in 1..Len(seq)}

\* lines of the category file that the call wrote anew
RewrittenLines == Range(PostText) \ Range(PreText)

\* C10: the related memories link_related_memories returns for a target, and
\* the ids it writes into an item's links, never contain the item's own
\* memory_id, whatever the sidecars hold.
C10_LinkExclusion ==
    LinkCalled =>
        /\ ~call.link_all_items => call.memory_id \notin Range(result.linked_memory_ids)
        /\ \A line \in RewrittenLines :
               IsTimestampedItem(line) => line.memory_id \notin Range(line.links)

\* item a was linked while two sidecars held records carrying its id, one of
\* them as similar to it as can be
C10_Witness ==
    /\ LinkCalled
    /\ ~call.link_all_items
    /\ call.memory_id = "a"
    /\ call.category = "profile"
    /\ env.fault = "none"
    /\ \E r \in Range(SidecarRecords(pre.embeddings, "profile")) :
           r.memory_id = "a" /\ r.embedding = embed("z")
    /\ \E r \in Range(SidecarRecords(pre.embeddings, "activity")) : r.memory_id = "a"
    /\ result.success
    /\ result.linked_memory_ids = <<"b", "c">>
    /\ Line("item", "a", "d1", "z", <<"b", "c">>) \in RewrittenLines

\* ------------------------------------------------------------------------
\* The file manager: appends and I/O errors
\* ------------------------------------------------------------------------
AppendCalled == call.op = "append_memory_file"

\* C2: after append_memory_file(category, line) returns true, the text of the
\* category ends with line, and the text the category held before the append
\* is still there in front of it, so that no earlier append is lost.
C2_AppendMonotonicity ==
    AppendCalled /\ result.ok =>
        /\ EndsWith(PostText, call.content)
        /\ StartsWith(PostText, PreText)

\* C9: a store operation returns true only if no I/O error occurred inside
\* it; append_memory_file, when reading the existing content fails, returns
\* false and leaves the file as it was.
C9_StoreErrorsSurface ==
    /\ /\ call.op \in {"write_memory_file", "append_memory_file", "delete_memory_file"}
       /\ env.rd = "error" \/ env.wr # "ok"
       => ~result.ok
    /\ AppendCalled /\ env.rd = "error" =>
           ~result.ok /\ files = pre.files

\* ------------------------------------------------------------------------
\* The orchestrator loop
\* ------------------------------------------------------------------------
Returned == agent.pc = "returned"

Looping == agent.pc \in {"loop", "tools"}

\* C3: when every model response is successful and none contains the
\* completion sentinel, run issues exactly max_iterations model requests,
\* then terminates and reports iterations = max_iterations, whatever tool
\* calls are requested and whatever they return.
C3_BoundedTermination ==
    /\ [](agent.clean => agent.requests <= agent.max_iterations)
    /\ [](Returned /\ agent.success /\ agent.clean =>
              /\ agent.requests = agent.max_iterations
              /\ agent.iterations = agent.max_iterations)
    /\ (Looping ~> Returned)

\* a run of two iterations ended at max_iterations after tool calls that
\* succeeded and tool calls that failed
C3_Witness ==
    /\ Returned
    /\ agent.success
    /\ agent.clean
    /\ agent.max_iterations = MaxIterations
    /\ agent.requests = MaxIterations
    /\ agent.iterations = MaxIterations
    /\ \E i, j \in 1..Len(agent.function_calls) :
           agent.function_calls[i].success /\ ~agent.function_calls[j].success

\* C4: as soon as a response contains the completion sentinel the loop ends
\* in that iteration: no operation is executed after that response and no
\* further model request is issued; the loop never goes beyond max_iterations.
C4_SentinelTermination ==
    /\ agent.requests <= agent.max_iterations
    /\ agent.complete_at # 0 =>
           /\ Returned
           /\ agent.requests = agent.complete_at
           /\ agent.iterations = agent.complete_at
           /\ \A i \in 1..Len(agent.function_calls) :
                  agent.function_calls[i].iteration < agent.complete_at

\* the first response carried the sentinel together with tool calls, and the
\* run returned at once with iterations to spare
C4_Witness ==
    /\ Returned
    /\ agent.complete_at = 1
    /\ agent.max_iterations = MaxIterations
    /\ agent.response.complete
    /\ agent.response.tool_calls # <<>>
    /\ agent.function_calls = <<>>
    /\ agent.requests = 1

\* C5: once stop_action has set the stop signal while run is looping, run
\* issues no further model request.
C5_CooperativeCancellation ==
    agent.stop_requests # -1 => agent.requests = agent.stop_requests

\* ------------------------------------------------------------------------
\* Linking: the lines the write-back leaves alone
\* ------------------------------------------------------------------------
\* a line the link call writes links for: the item with the given id, or
\* every item when link_all_items is set
IsLinkTarget(line) ==
    /\ IsTimestampedItem(line)
    /\ call.link_all_items \/ line.memory_id = call.memory_id

\* the other lines of a text, in their order
FrameLines(text) == SelectSeq(text, LAMBDA line : ~IsLinkTarget(line))

\* C11: when link_related_memories writes links back and no read or write
\* fails, the lines of the category file other than the linked item's line,
\* lines that do not parse as timestamped memory items included, are the same
\* after the call as before it and in the same order.
C11_LinkWriteBackFrame ==
    LinkCalled /\ env.fault = "none" => FrameLines(PostText) = FrameLines(PreText)

\* ------------------------------------------------------------------------
\* MemoryFileManager: the categories of a directory
\* ------------------------------------------------------------------------
\* item.stem.replace("_", " ") for the file names of the model
ClusterCategoryName(stem) ==
    CASE stem = "my_notes" -> "my notes"
      [] OTHER -> stem

\* _get_cluster_categories: the categories of the files whose stem is not a
\* basic category
get_cluster_categories(fs, basic_categories) ==
    {ClusterCategoryName(stem) : stem \in DOMAIN fs \ basic_categories}

\* the order sorted() gives the category names of the model
SortedCategories == <<"activity", "event", "hobby", "my notes", "profile">>

Sorted(categories) == SelectSeq(SortedCategories, LAMBDA c : c \in categories)

\* list_memory_files
list_memory_files(fs, category_group) ==
    LET basic_categories == BasicCategories
        cluster_categories == get_cluster_categories(fs, basic_categories)
    IN  CASE category_group = "basic" -> Sorted(basic_categories)
          [] category_group = "cluster" -> Sorted(cluster_categories)
          [] OTHER -> Sorted(basic_categories \cup cluster_categories)

\* ------------------------------------------------------------------------
\* RecallAgent
\* ------------------------------------------------------------------------
\* self.default_categories
default_categories == <<"profile", "event">>

\* retrieve_default_category: the result dictionary
retrieve_default_category(fs, rd) ==
    LET all_categories == list_memory_files(fs, "basic")
        with_content == SelectSeq(default_categories,
                            LAMBDA category : read_memory_file(fs, category, rd) # <<>>)
    IN  [success |-> TRUE,
         results |-> [i \in 1..Len(with_content) |->
                        [category |-> with_content[i],
                         content |-> read_memory_file(fs, with_content[i], rd),
                         file_exists |-> with_content[i] \in Range(all_categories)]]]

\* the embedding the client gives a text: that of the content of its first line
EmbedContent(content) == embed(content[1].content)

\* word in content_lower
WordInContent(word, content) ==
    \E i \in 1..Len(content) :
        \/ word \in {content[i].content, content[i].memory_id, content[i].mentioned_at}
        \/ word \in Range(content[i].links)

\* the keyword score of a one-word query
KeywordRelevance(query, content) ==
    IF WordInContent(query, content) THEN Similarity(1, 1) ELSE ZeroSimilarity

\* content_relevance of one category in retrieve_relevant_category
ContentRelevance(query, content, semantic_search_enabled, embed_raises) ==
    IF semantic_search_enabled /\ ~embed_raises
    THEN cosine_similarity(embed(query), EmbedContent(content))
    ELSE KeywordRelevance(query, content)

\* an exclusion list that leaves the activity category in
ExcludedCategories_DefaultsOnly == Range(default_categories)

\* excluded_categories = self.default_categories + ["activity"]
ExcludedCategories == Range(default_categories) \cup {"activity"}

\* a score above 0
Positive(score) == score.num > 0

\* retrieve_relevant_category: the result dictionary
retrieve_relevant_category(fs, query, top_k, semantic_search_enabled, embed_raises, rd) ==
    LET all_categories == list_memory_files(fs, "all")
        relevant_categories ==
            SelectSeq(all_categories, LAMBDA cat : cat \notin ExcludedCategories)
        Score(category) ==
            ContentRelevance(query, read_memory_file(fs, category, rd),
                             semantic_search_enabled, embed_raises)
        scored == SelectSeq(relevant_categories,
                      LAMBDA category :
                          /\ read_memory_file(fs, category, rd) # <<>>
                          /\ Positive(Score(category)))
        category_scores ==
            SortBySimilarity([i \in 1..Len(scored) |->
                                [category |-> scored[i],
                                 content |-> read_memory_file(fs, scored[i], rd),
                                 similarity |-> Score(scored[i])]])
    IN  [success |-> TRUE, results |-> Take(category_scores, top_k)]

\* ------------------------------------------------------------------------
\* The recall methods called on a store
\* ------------------------------------------------------------------------
\* categories the store holds files of: basic ones and two cluster ones
RecallCategories == BasicCategories \cup {"hobby", "my notes"}

RetrieveDefaultCategory(rd) ==
    /\ call' = [op |-> "retrieve_default_category"]
    /\ env' = [rd |-> rd, wr |-> "ok"]
    /\ pre' = Snapshot
    /\ result' = retrieve_default_category(files, rd)
    /\ UNCHANGED <<files, embeddings, embeddings_enabled, agent, workers>>

RetrieveRelevantCategory(query, top_k, semantic_search_enabled, embed_raises, rd) ==
    /\ call' = [op |-> "retrieve_relevant_category", query |-> query, top_k |-> top_k,
                semantic_search_enabled |-> semantic_search_enabled]
    /\ env' = [rd |-> rd, wr |-> "ok", embed_raises |-> embed_raises]
    /\ pre' = Snapshot
    /\ result' = retrieve_relevant_category(files, query, top_k,
                     semantic_search_enabled, embed_raises, rd)
    /\ UNCHANGED <<files, embeddings, embeddings_enabled, agent, workers>>

NextRecall ==
    \/ \E category \in RecallCategories, content \in SampleTexts :
          WriteMemoryFile(category, content, "ok")
    \/ \E category \in RecallCategories : DeleteMemoryFile(category, "ok")
    \/ \E rd \in ReadOutcomes : RetrieveDefaultCategory(rd)
    \/ \E query \in Contents, top_k \in TopKs, semantic_search_enabled \in BOOLEAN,
          embed_raises \in BOOLEAN, rd \in ReadOutcomes :
          RetrieveRelevantCategory(query, top_k, semantic_search_enabled,
                                   embed_raises, rd)

SpecRecall == InitStore /\ [][NextRecall]_vars

\* ------------------------------------------------------------------------
\* Recall: the two category modes are disjoint
\* ------------------------------------------------------------------------
ResultCategories == {result.results[i].category : i \in 1..Len(result.results)}

\* C12: retrieve_default_category returns entries only for the categories of
\* the default allowlist (profile, event), and retrieve_relevant_category
\* never returns a category of that allowlist nor activity, whatever files
\* the store holds.
C12_RecallModeDisjointness ==
    /\ call.op = "retrieve_default_category" =>
           ResultCategories \subseteq {"profile", "event"}
    /\ call.op = "retrieve_relevant_category" =>
           ResultCategories \cap {"profile", "event", "activity"} = {}

\* the store holds a profile, an activity and two cluster files that all
\* match the query, and the relevant-category search returned both cluster
\* categories
C12_Witness ==
    /\ call.op = "retrieve_relevant_category"
    /\ \A category \in {"profile", "activity", "hobby", "my notes"} :
           /\ FileExists(files, category)
           /\ FileText(files, category) = <<Line("item", "a", "d1", "x", <<>>)>>
    /\ call.query = "x"
    /\ ResultCategories = {"hobby", "my notes"}

\* ------------------------------------------------------------------------
\* Stores of several (agent_id, user_id) pairs in one memory directory
\* ------------------------------------------------------------------------
\* In this part files maps the path of a user directory, relative to
\* memory_dir, to the files in it, and embeddings maps the path of a
\* character embeddings directory to the sidecars in it; a path is the
\* sequence of its parts.

\* identifiers a request may carry
Identifiers == {"p", "q", "p/q", "q/q"}

\* the parts pathlib gives an identifier joined to a path
Parts(id) ==
    CASE id = "p/q" -> <<"p", "q">>
      [] id = "q/q" -> <<"q", "q">>
      [] OTHER -> <<id>>

\* self.memory_dir / agent_id / user_id
UserDir(agent_id, user_id) == Parts(agent_id) \o Parts(user_id)

\* get_char_embeddings_dir: self.embeddings_dir / self.agent_id / self.user_id
CharEmbeddingsDir(agent_id, user_id) ==
    <<"embeddings">> \o Parts(agent_id) \o Parts(user_id)

\* the content of a directory, empty when it does not exist
DirContent(dirs, dir) == IF dir \in DOMAIN dirs THEN dirs[dir] ELSE <<>>

PutDir(dirs, dir, content) ==
    [d \in DOMAIN dirs \cup {dir} |-> IF d = dir THEN content ELSE dirs[d]]

\* the pairs requests are made for
Pairs == {<<"p", "q">>, <<"q", "p">>, <<"p/q", "q">>, <<"p", "q/q">>}

\* add_activity_memory of a MemoryAgent constructed for (agent_id, user_id)
PairAddActivityMemory(agent_id, user_id, output, ids, fault) ==
    LET dir == UserDir(agent_id, user_id)
        emb_dir == CharEmbeddingsDir(agent_id, user_id)
        r == add_activity_memory(DirContent(files, dir), DirContent(embeddings, emb_dir),
                 embeddings_enabled, NoDate, TRUE, "ok", output, ids, fault)
    IN  /\ Len(read_memory_file(DirContent(files, dir), "activity", "ok")) < MaxLines
        /\ call' = [op |-> "add_activity_memory", agent_id |-> agent_id,
                    user_id |-> user_id]
        /\ env' = [llm |-> "ok", output |-> output, ids |-> ids, fault |-> fault]
        /\ pre' = Snapshot
        /\ files' = PutDir(files, dir, r.files)
        /\ embeddings' = PutDir(embeddings, emb_dir, r.embeddings)
        /\ result' = r.result
        /\ UNCHANGED <<embeddings_enabled, agent, workers>>

\* read_memory_file of a MemoryFileManager constructed for (agent_id, user_id)
PairReadMemoryFile(agent_id, user_id, category) ==
    /\ call' = [op |-> "read_memory_file", agent_id |-> agent_id, user_id |-> user_id]
    /\ env' = [llm |-> "ok", output |-> <<>>, ids |-> <<>>, fault |-> "none"]
    /\ pre' = Snapshot
    /\ result' = [success |-> TRUE,
                  text |-> read_memory_file(DirContent(files, UserDir(agent_id, user_id)),
                                            category, "ok")]
    /\ UNCHANGED <<files, embeddings, embeddings_enabled, agent, workers>>

\* a memory directory no request has been made on
InitPairs ==
    /\ files = <<>>
    /\ embeddings = <<>>
    /\ embeddings_enabled = TRUE
    /\ call = NoCall
    /\ env = [llm |-> "ok", output |-> <<>>, ids |-> <<>>, fault |-> "none"]
    /\ pre = Snapshot
    /\ result = [success |-> TRUE, text |-> <<>>]
    /\ agent = AgentIdle
    /\ workers = NoWorkers

\* what the formatting call answers in these requests
PairOutputs == {<<ModelLine("x")>>, <<ModelLine("y")>>}

NextPairs ==
    \E pair \in Pairs :
        \/ \E output \in PairOutputs, fault \in {"none", "write_error"} :
              PairAddActivityMemory(pair[1], pair[2], output, <<"a">>, fault)
        \/ PairReadMemoryFile(pair[1], pair[2], "activity")

SpecPairs == InitPairs /\ [][NextPairs]_vars

\* ------------------------------------------------------------------------
\* Isolation of the pairs
\* ------------------------------------------------------------------------
\* the files and sidecars of a pair
PairFiles(dirs, pair) == DirContent(dirs, UserDir(pair[1], pair[2]))

PairSidecars(dirs, pair) == DirContent(dirs, CharEmbeddingsDir(pair[1], pair[2]))

\* C13: an operation executed for one (agent_id, user_id) pair changes no
\* category file and no embedding sidecar of any other pair.
C13_PerIdentityIsolation ==
    call.op # "none" =>
        \A other \in Pairs \ {<<call.agent_id, call.user_id>>} :
            /\ PairFiles(files, other) = PairFiles(pre.files, other)
            /\ PairSidecars(embeddings, other) = PairSidecars(pre.embeddings, other)

\* ------------------------------------------------------------------------
\* Requests for one (agent_id, user_id) pair served at the same time
\* ------------------------------------------------------------------------
\* memorize_conversation hands each request to a thread of the default
\* executor.  A worker performs one read-modify-write on the activity file:
\* the append of add_activity_memory (append_memory_file) or the update of
\* update_memory_with_suggestions (execute reads, _execute_operations saves).
\* Reading the file and writing it are separate steps; nothing orders the
\* steps of one worker with those of another.
Workers == {"w1", "w2"}

\* the id each worker's uuid4 call gives
WorkerMemoryId(w) == IF w = "w1" THEN "a" ELSE "b"

WorkerStart ==
    [pc |-> "start", op |-> "none", existing_content |-> <<>>, content |-> <<>>,
     operation_list |-> <<>>, written |-> {}, stale |-> FALSE]

\* the category the workers write
WorkerCategory == "activity"

\* the step that reads the category file
WorkerRead(w, op, content, operation_list) ==
    /\ workers[w].pc = "start"
    /\ workers' = [workers EXCEPT ![w] =
                     [@ EXCEPT !.pc = "read", !.op = op,
                               !.existing_content =
                                   read_memory_file(files, WorkerCategory, "ok"),
                               !.content = content,
                               !.operation_list = operation_list]]
    /\ UNCHANGED <<files, embeddings, embeddings_enabled, call, env, pre, result, agent>>

\* a write step that reads the file again under a lock
WorkerExisting_Reread(w) == read_memory_file(files, WorkerCategory, "ok")

\* the existing content the write step builds on: what the worker read
WorkerExisting(w) == workers[w].existing_content

\* the files after the worker's write
WorkerWritten(w) ==
    IF workers[w].op = "append"
    THEN write_memory_file(files, WorkerCategory,
             AppendedContent(WorkerExisting(w), workers[w].content), "ok").files
    ELSE execute_operations(files, embeddings, embeddings_enabled, WorkerCategory,
             workers[w].operation_list, Today,
             extract_memory_items_from_content(WorkerExisting(w)), FALSE,
             <<WorkerMemoryId(w)>>, "none").files

\* the step that writes the category file; written records the lines the
\* worker put into the file, stale that another worker wrote the file after
\* this one read it
WorkerWrite(w) ==
    /\ workers[w].pc = "read"
    /\ files' = WorkerWritten(w)
    /\ workers' =
         [v \in Workers |->
            IF v = w
            THEN [workers[v] EXCEPT
                    !.pc = "done",
                    !.written = {files'[WorkerCategory][i] :
                                    i \in 1..Len(files'[WorkerCategory])}
                                \ {WorkerExisting(v)[i] :
                                    i \in 1..Len(WorkerExisting(v))}]
            ELSE IF workers[v].pc = "read"
            THEN [workers[v] EXCEPT !.stale = TRUE]
            ELSE workers[v]]
    /\ UNCHANGED <<embeddings, embeddings_enabled, call, env, pre, result, agent>>

\* the activity files the requests find
WorkerStores == {<<>>, [c \in {"activity"} |-> <<ItemC>>]}

InitWorkers ==
    /\ files \in WorkerStores
    /\ embeddings = <<>>
    /\ embeddings_enabled = FALSE
    /\ call = NoCall
    /\ env = [fault |-> "none"]
    /\ pre = Snapshot
    /\ result = [success |-> TRUE]
    /\ agent = AgentIdle
    /\ workers = [w \in Workers |-> WorkerStart]

\* the operation lists of the updates
WorkerOperationLists ==
    {<<Operation("ADD", NoId, "y")>>, <<Operation("UPDATE", "c", "x")>>,
     <<Operation("DELETE", "c", NoContent)>>}

NextWorkers ==
    \E w \in Workers :
        \/ \E c \in {"x", "y"} :
              WorkerRead(w, "append",
                  <<FormatLine(MemoryItem(WorkerMemoryId(w), Today, c, <<>>))>>, <<>>)
        \/ \E operation_list \in WorkerOperationLists :
              WorkerRead(w, "update", <<>>, operation_list)
        \/ WorkerWrite(w)

SpecWorkers == InitWorkers /\ [][NextWorkers]_vars

\* ------------------------------------------------------------------------
\* Lost update
\* ------------------------------------------------------------------------
AllDone == \A w \in Workers : workers[w].pc = "done"

\* the lines w wrote and v did not
OwnLines(w, v) == workers[w].written \ workers[v].written

\* C14: the store takes no lock, so a worker may read the category file
\* before another worker of the same pair writes it and write it afterwards;
\* whenever that has happened, every line the other worker wrote is missing
\* from the file after both have finished (a lost update).
C14_LostUpdate ==
    AllDone =>
        \A v \in Workers : workers[v].stale =>
            \A w \in Workers \ {v} :
                \A line \in OwnLines(w, v) :
                    line \notin Range(read_memory_file(files, WorkerCategory, "ok"))

\* two appends were interleaved and the first one's item is not in the file
C14_Witness ==
    /\ AllDone
    /\ workers["w1"].op = "append"
    /\ workers["w2"].op = "append"
    /\ workers["w2"].stale
    /\ workers["w1"].written = {Line("item", "a", "d1", "x", <<>>)}
    /\ files["activity"] = <<ItemC, Line("item", "b", "d1", "y", <<>>)>>

\* ------------------------------------------------------------------------
\* Reconciling update: which items are embedded again
\* ------------------------------------------------------------------------
\* the records the call appended to the sidecar of its category
NewRecords ==
    LET before == SidecarRecords(pre.embeddings, call.category)
        after == SidecarRecords(embeddings, call.category)
    IN  SubSeq(after, Len(before) + 1, Len(after))

\* the ids of the items an ADD or UPDATE of the call touched
TouchedIds ==
    Range(env.ids)
    \cup {env.operation_list[i].target_id : i \in
            {j \in 1..Len(env.operation_list) :
                /\ env.operation_list[j].operation = "UPDATE"
                /\ env.operation_list[j].memory_content # NoContent}}

\* C15: in update_memory_with_suggestions with embeddings enabled and no
\* failing read or write, every embedding record appended to the category
\* sidecar is for an item touched by an ADD or UPDATE of the call, and none
\* is for an item that is no longer in the category file after the call.
C15_SelectiveReembedding ==
    UpdateCalled /\ env.llm = "ok" /\ env.fault = "none"
        /\ call.category \in BasicCategories =>
        \A i \in 1..Len(NewRecords) :
            /\ NewRecords[i].memory_id \in TouchedIds
            /\ NewRecords[i].memory_id \in ItemIds(extract_memory_items_from_content(PostText))

\* ------------------------------------------------------------------------
\* The call log of a run
\* ------------------------------------------------------------------------
\* the entries of the log for registered operations, and the executions, both
\* as (iteration, name, result)
LoggedOperations ==
    LET logged == SelectSeq(agent.function_calls,
                      LAMBDA r : r.function_name \in RegisteredActions)
    IN  [i \in 1..Len(logged) |->
            <<logged[i].iteration, logged[i].function_name, logged[i].success>>]

ExecutedOperations ==
    [i \in 1..Len(agent.executed) |->
        <<agent.executed[i].iteration, agent.executed[i].function_name,
          agent.executed[i].success>>]

\* C16: at every point of a run the entries of function_calls for operations
\* are exactly the operations executed so far, each once and with its
\* result, in execution order; the executions go by iteration and, within an
\* iteration, in the order in which the response requested the calls.
C16_OrderedCallLog ==
    /\ LoggedOperations = ExecutedOperations
    /\ \A i, j \in 1..Len(agent.executed) :
           i < j =>
               \/ agent.executed[i].iteration < agent.executed[j].iteration
               \/ /\ agent.executed[i].iteration = agent.executed[j].iteration
                  /\ agent.executed[i].position < agent.executed[j].position
    /\ \A i \in 1..Len(agent.executed) :
           agent.executed[i].iteration = agent.iteration =>
               agent.executed[i].function_name =
                   agent.response.tool_calls[agent.executed[i].position].function_name

\* a run of two iterations returned after a link and an ingest requested in
\* one response and an update requested in the next, one of them failing
C16_Witness ==
    /\ Returned
    /\ Len(agent.function_calls) = 3
    /\ agent.function_calls[1].function_name = "link_related_memories"
    /\ agent.function_calls[1].iteration = 1
    /\ agent.function_calls[2].function_name = "add_activity_memory"
    /\ agent.function_calls[2].iteration = 1
    /\ agent.function_calls[2].success
    /\ agent.function_calls[3].function_name = "update_memory_with_suggestions"
    /\ agent.function_calls[3].iteration = 2
    /\ ~agent.function_calls[1].success

\* ------------------------------------------------------------------------
\* Calls of a function the registry does not hold
\* ------------------------------------------------------------------------
\* the step logs a call of an unknown function
LogsUnknownFunction ==
    /\ Len(agent'.function_calls) = Len(agent.function_calls) + 1
    /\ agent'.function_calls[Len(agent'.function_calls)].function_name
           \notin RegisteredActions

\* C17: a call of a function that is not registered gives a failure result
\* listing the registered names; the step that makes it leaves the files and
\* the embeddings as they were, hands the result to the model as a tool
\* message, and the run goes on with the next tool call or the next
\* iteration.
C17_UnknownFunction ==
    /\ [](\A i \in 1..Len(agent.function_calls) :
             agent.function_calls[i].function_name \notin RegisteredActions =>
                 /\ ~agent.function_calls[i].success
                 /\ agent.function_calls[i].available_functions = RegisteredActions)
    /\ [][LogsUnknownFunction =>
             /\ files' = files
             /\ embeddings' = embeddings
             /\ agent'.executed = agent.executed
             /\ Len(agent'.tool_messages) = Len(agent.tool_messages) + 1
             /\ LET message == agent'.tool_messages[Len(agent'.tool_messages)]
                IN  /\ message.function_name = Head(agent.pending).function_name
                    /\ ~message.success
                    /\ message.available_functions = RegisteredActions
             /\ agent'.pending # <<>> =>
                    agent'.pc = "tools" /\ agent'.pending = Tail(agent.pending)
             /\ agent'.pending = <<>> /\ agent.iteration < agent.max_iterations =>
                    agent'.pc = "loop"]_vars

\* a run that called an unknown function first and added a memory after it
C17_Witness ==
    /\ Len(agent.function_calls) = 2
    /\ agent.function_calls[1].function_name = "get_available_categories"
    /\ agent.function_calls[2].function_name = "add_activity_memory"
    /\ agent.function_calls[2].success
    /\ Len(agent.tool_messages) = 2
    /\ files # <<>>

\* ------------------------------------------------------------------------
\* What run gives back
\* ------------------------------------------------------------------------
\* the tool call the thread of run is at
AtOperation == agent.pc = "tools" /\ Head(agent.pending).arguments = "json"

\* the step is the end of an operation in which something raised
OperationRaised ==
    /\ AtOperation
    /\ Len(agent'.executed) = Len(agent.executed) + 1
    /\ env'.fault = "raise" \/ ("llm" \in DOMAIN env' /\ env'.llm = "raise")

\* C18: whatever the model and the operations do, run comes to its return
\* statement with a result; an operation in which something raises ends as a
\* failure record in the log, and the run goes on from there.
C18_RunNeverRaises ==
    /\ [](agent.pc \in {"idle", "loop", "tools", "returned"})
    /\ [][OperationRaised =>
             /\ Len(agent'.function_calls) = Len(agent.function_calls) + 1
             /\ ~agent'.function_calls[Len(agent'.function_calls)].success
             /\ agent'.pc \in {"loop", "tools", "returned"}]_vars
    /\ (Looping ~> Returned)

\* a returned run in which cluster_memories raised, the model request after
\* it raised too, and the model had given a failed response in no iteration
C18_Witness ==
    /\ Returned
    /\ call.op = "cluster_memories"
    /\ env.fault = "raise"
    /\ Len(agent.function_calls) = 1
    /\ ~agent.function_calls[1].success
    /\ agent.response.raised
    /\ agent.iterations = 2

\* ------------------------------------------------------------------------
\* How the loop of a run ended
\* ------------------------------------------------------------------------
\* the loop was left because the last model request failed: the response had
\* success = false, or something raised in the iteration
EndedByFailedModelCall ==
    /\ Returned
    /\ agent.requests > 0
    /\ agent.response.raised \/ ~agent.response.success

\* C19: the result of a run whose loop was ended by a failed model call
\* records that error: it is not a success without an error entry.
C19_MidLoopErrorReported ==
    EndedByFailedModelCall =>
        \/ ~agent.success
        \/ \E i \in 1..Len(agent.processing_log) : agent.processing_log[i] = "error"

\* ------------------------------------------------------------------------
\* The order of the operations of a run
\* ------------------------------------------------------------------------
\* the step of PROCESSING WORKFLOW in the system message that names the
\* operation
WorkflowStep(function_name) ==
    CASE function_name = "add_activity_memory" -> 1
      [] function_name = "run_theory_of_mind" -> 2
      [] function_name = "generate_memory_suggestions" -> 3
      [] function_name = "update_memory_with_suggestions" -> 4
      [] function_name = "link_related_memories" -> 5
      [] function_name = "cluster_memories" -> 6

\* C20: the operations of a run are executed in the order of the workflow
\* steps; when one is executed, every operation of an earlier step has been
\* executed before it in the same run.
C20_FixedWorkflowOrder ==
    \A i \in 1..Len(agent.executed) :
        /\ \A j \in 1..(i - 1) :
               WorkflowStep(agent.executed[j].function_name)
                   <= WorkflowStep(agent.executed[i].function_name)
        /\ \A n \in RegisteredActions :
               WorkflowStep(n) < WorkflowStep(agent.executed[i].function_name) =>
                   \E j \in 1..(i - 1) : agent.executed[j].function_name = n

\* ------------------------------------------------------------------------
\* Ingest when the formatting call answers with nothing
\* ------------------------------------------------------------------------
AddCalled == call.op = "add_activity_memory"

\* the formatting call answered with the empty text or with blank lines only
BlankModelOutput ==
    \/ env.llm = "empty"
    \/ env.llm = "ok" /\ \A i \in 1..Len(env.output) : env.output[i] = EmptyLine

\* C21: when the formatting call returns empty or whitespace-only text,
\* add_activity_memory returns a failure result and leaves the activity file
\* and its sidecar as they were.
C21_EmptyModelOutput ==
    AddCalled /\ BlankModelOutput =>
        /\ ~result.success
        /\ files = pre.files
        /\ embeddings = pre.embeddings

\* an ingest on a store with an activity file, answered with two blank lines
C21_Witness ==
    /\ AddCalled
    /\ env.llm = "ok"
    /\ env.output = <<EmptyLine, EmptyLine>>
    /\ env.fault = "none"
    /\ call.generate_embeddings
    /\ "activity" \in DOMAIN pre.files
    /\ ~result.success

\* ------------------------------------------------------------------------
\* run_theory_of_mind
\* ------------------------------------------------------------------------
\* a line of the response, stripped: its text, whether it starts with "**",
\* and whether its upper case holds "REASONING PROCESS" or "INFERENCE ITEMS"
ResponseLine(text, stars, reasoning, inference) ==
    [text |-> text, stars |-> stars, reasoning |-> reasoning, inference |-> inference]

BlankResponseLine == ResponseLine("", FALSE, FALSE, FALSE)

ResponseLines ==
    {BlankResponseLine,
     ResponseLine("x", FALSE, FALSE, FALSE),
     ResponseLine("reasoning process", FALSE, TRUE, FALSE),
     ResponseLine("**REASONING PROCESS:**", TRUE, TRUE, FALSE),
     ResponseLine("**INFERENCE ITEMS:**", TRUE, FALSE, TRUE),
     ResponseLine("**Note**", TRUE, FALSE, FALSE)}

ResponseTexts == SeqsUpTo(ResponseLines, MaxResponseLines)

\* line.upper().startswith("**REASONING PROCESS:") or line.startswith("**")
\* and "REASONING PROCESS" in line.upper()
IsReasoningHeader(line) == line.stars /\ line.reasoning

IsInferenceHeader(line) == ~IsReasoningHeader(line) /\ line.stars /\ line.inference

\* the loop of _parse_theory_of_mind_from_text from line i on, in section
\* "none", "reasoning" or "inference": [reasoning_process, contents]
RECURSIVE ParseTheoryFrom(_, _, _)
ParseTheoryFrom(lines, i, section) ==
    IF i > Len(lines) THEN [reasoning_process |-> <<>>, contents |-> <<>>]
    ELSE LET line == lines[i]
         IN  IF IsReasoningHeader(line) THEN ParseTheoryFrom(lines, i + 1, "reasoning")
             ELSE IF IsInferenceHeader(line) THEN ParseTheoryFrom(lines, i + 1, "inference")
             ELSE LET rest == ParseTheoryFrom(lines, i + 1, section)
                  IN  IF section = "reasoning" /\ line.text # "" /\ ~line.stars
                      THEN [rest EXCEPT !.reasoning_process = <<line.text>> \o @]
                      ELSE IF section = "inference" /\ line.text # ""
                      THEN [rest EXCEPT !.contents = <<line.text>> \o @]
                      ELSE rest

\* _parse_theory_of_mind_from_text: (reasoning_process, theory_of_mind_items)
parse_theory_of_mind_from_text(response_text, session_date, ids) ==
    LET parsed == ParseTheoryFrom(response_text, 1, "none")
    IN  [reasoning_process |-> parsed.reasoning_process,
         theory_of_mind_items |->
             [i \in 1..Len(parsed.contents) |->
                 MemoryItem(ids[i], session_date, parsed.contents[i], <<>>)]]

TheoryFailure ==
    [success |-> FALSE, theory_of_mind_items |-> <<>>, reasoning_process |-> <<>>]

\* not response.strip()
IsBlankResponse(response) ==
    \A i \in 1..Len(response) : response[i] = BlankResponseLine

\* execute: the result
run_theory_of_mind(conversation_blank, activity_items, session_date, llm, response, ids) ==
    LET text == IF llm = "fail"
                THEN <<ResponseLine(ErrorContent, FALSE, FALSE, FALSE)>>
                ELSE response
        parsed == parse_theory_of_mind_from_text(text, SessionDate(session_date), ids)
    IN  IF conversation_blank \/ activity_items = <<>> THEN TheoryFailure
        ELSE IF llm = "raise" \/ IsBlankResponse(text) THEN TheoryFailure
        ELSE IF parsed.theory_of_mind_items = <<>> THEN TheoryFailure
        ELSE [success |-> TRUE,
              theory_of_mind_items |-> parsed.theory_of_mind_items,
              reasoning_process |-> parsed.reasoning_process]

RunTheoryOfMind(conversation_blank, activity_items, session_date, llm, response, ids) ==
    /\ Idle
    /\ call' = [op |-> "run_theory_of_mind", conversation_blank |-> conversation_blank,
                activity_items |-> activity_items, session_date |-> session_date]
    /\ env' = [llm |-> llm, response |-> response, ids |-> ids, fault |-> "none"]
    /\ pre' = Snapshot
    /\ result' = run_theory_of_mind(conversation_blank, activity_items, session_date,
                                    llm, response, ids)
    /\ UNCHANGED <<files, embeddings, embeddings_enabled, agent, workers>>

\* the ids the parser draws: one per line that can become an item
NumTheoryIds(response) ==
    Len(ParseTheoryFrom(response, 1, "none").contents)

NextTheory ==
    \E conversation_blank \in BOOLEAN, activity_items \in {<<>>, <<ItemA>>}, session_date \in SessionDates :
        \/ \E response \in ResponseTexts :
              \E ids \in IdSeqs(NumTheoryIds(response)) :
                  RunTheoryOfMind(conversation_blank, activity_items, session_date,
                                  "ok", response, ids)
        \/ \E llm \in {"fail", "raise"} :
              RunTheoryOfMind(conversation_blank, activity_items, session_date,
                              llm, <<>>, <<>>)

SpecTheory == InitStore /\ [][NextTheory]_vars

TheoryCalled == call.op = "run_theory_of_mind"

\* the response has its REASONING PROCESS section with a line of reasoning,
\* and an INFERENCE ITEMS header after it with nothing but blank lines below
EmptyInferenceSection ==
    \E k \in 1..Len(env.response) :
        /\ IsInferenceHeader(env.response[k])
        /\ \A j \in (k + 1)..Len(env.response) : env.response[j] = BlankResponseLine
        /\ \E i \in 1..(k - 1) :
               /\ IsReasoningHeader(env.response[i])
               /\ \E j \in (i + 1)..(k - 1) :
                      env.response[j].text # "" /\ ~env.response[j].stars

\* C22: for valid arguments and a response that has the REASONING PROCESS
\* section and an empty INFERENCE ITEMS section, run_theory_of_mind returns
\* success with zero items.
C22_EmptyInferenceIsSuccess ==
    /\ TheoryCalled
    /\ ~call.conversation_blank
    /\ call.activity_items # <<>>
    /\ env.llm = "ok"
    /\ EmptyInferenceSection
    => /\ result.success
       /\ result.theory_of_mind_items = <<>>

\* ------------------------------------------------------------------------
\* The line codec, character by character
\* ------------------------------------------------------------------------
\* a line as the sequence of its characters; "@" stands for the text
\* "mentioned at " of the pattern, " " for a whitespace character and "x"
\* and "," for any other character
Chars == {"[", "]", " ", "x", ",", "@"}

Str(chars, n) == SeqsUpTo(chars, n)

\* line.strip()
RECURSIVE Strip(_)
Strip(s) ==
    IF s = <<>> THEN s
    ELSE IF Head(s) = " " THEN Strip(Tail(s))
    ELSE IF s[Len(s)] = " " THEN Strip(SubSeq(s, 1, Len(s) - 1))
    ELSE s

\* index of the first "]" of s at or after i, 0 when there is none
RECURSIVE FirstClose(_, _)
FirstClose(s, i) ==
    IF i > Len(s) THEN 0
    ELSE IF s[i] = "]" THEN i
    ELSE FirstClose(s, i + 1)

\* (?:\s*\[([^\]]*)\])?$ tried at position i of r: the "[" of the group when
\* the rest of r from i is whitespace, "[", characters other than "]", and a
\* "]" at the end of r; 0 when the group does not match there
GroupAt(r, i) ==
    LET opens == {b \in i..(Len(r) - 1) :
                     /\ r[b] = "["
                     /\ \A k \in i..(b - 1) : r[k] = " "
                     /\ \A k \in (b + 1)..(Len(r) - 1) : r[k] # "]"}
    IN  IF i <= Len(r) /\ r[Len(r)] = "]" /\ opens # {}
        THEN CHOOSE b \in opens : TRUE
        ELSE 0

\* \s*(.*?)(?:\s*\[([^\]]*)\])?$ on what follows the date: the shortest
\* content after which the links group or the end of the line matches
MatchTail(rest) ==
    LET r == Strip(rest)
        n == CHOOSE n \in 0..Len(r) :
                 /\ GroupAt(r, n + 1) # 0 \/ n = Len(r)
                 /\ \A m \in 0..(n - 1) : GroupAt(r, m + 1) = 0
        b == GroupAt(r, n + 1)
    IN  [content |-> Strip(SubSeq(r, 1, n)),
         links |-> IF b = 0 THEN <<>> ELSE SubSeq(r, b + 1, Len(r) - 1)]

NullItem == MemoryItem(<<>>, <<>>, <<>>, <<>>)

\* _extract_timestamped_memory_item: the four groups of the pattern
\* ^\[([^\]]+)\]\[mentioned at ([^\]]+)\]\s*(.*?)(?:\s*\[([^\]]*)\])?$
\* on the stripped line, or four empty strings
extract_timestamped_memory_item(line) ==
    LET s == Strip(line)
        p == FirstClose(s, 2)
        q == FirstClose(s, p + 4)
    IN  IF /\ Len(s) >= 1 /\ s[1] = "["
           /\ p > 2
           /\ Len(s) >= p + 2 /\ s[p + 1] = "[" /\ s[p + 2] = "@"
           /\ q > p + 3 /\ FirstClose(s, p + 3) = q
        THEN LET tail == MatchTail(SubSeq(s, q + 1, Len(s)))
             IN  MemoryItem(SubSeq(s, 2, p - 1), SubSeq(s, p + 3, q - 1),
                            tail.content, tail.links)
        ELSE NullItem

\* the line matches the pattern
MatchesPattern(line) ==
    LET s == Strip(line)
        p == FirstClose(s, 2)
    IN  /\ Len(s) >= 1 /\ s[1] = "["
        /\ p > 2
        /\ Len(s) >= p + 2 /\ s[p + 1] = "[" /\ s[p + 2] = "@"
        /\ FirstClose(s, p + 3) > p + 3

\* f"[{memory_id}][mentioned at {mentioned_at}] {content} [{links}]"
EncodeItem(item) ==
    <<"[">> \o item.memory_id \o <<"]", "[", "@">> \o item.mentioned_at
        \o <<"]", " ">> \o item.content \o <<" ", "[">> \o item.links \o <<"]">>

\* the items the encoders are given: id and date non-empty and without "]",
\* content non-empty and stripped, links without "]"
ValidItems ==
    {MemoryItem(id, d, c, l) :
        id \in {<<"x">>, <<"[">>}, d \in {<<"x">>},
        c \in {t \in Str({"[", "]", " ", "x"}, MaxContentChars) : t # <<>> /\ Strip(t) = t},
        l \in Str({"x", ",", "["}, MaxLinkChars)}

\* lines handed to the decoder: short strings, and encoded lines with one
\* character taken out
DecoderInputs ==
    Str(Chars, MaxStringChars)
    \cup {SubSeq(e, 1, k - 1) \o SubSeq(e, k + 1, Len(e)) :
             e \in {EncodeItem(MemoryItem(<<"x">>, <<"x">>, <<"x">>, l)) : l \in {<<>>, <<"x">>}},
             k \in 1..11}

Encode(item) ==
    /\ Idle
    /\ call' = [op |-> "encode", item |-> item]
    /\ env' = [line |-> EncodeItem(item)]
    /\ pre' = Snapshot
    /\ result' = extract_timestamped_memory_item(EncodeItem(item))
    /\ UNCHANGED <<files, embeddings, embeddings_enabled, agent, workers>>

Decode(line) ==
    /\ Idle
    /\ call' = [op |-> "decode"]
    /\ env' = [line |-> line]
    /\ pre' = Snapshot
    /\ result' = extract_timestamped_memory_item(line)
    /\ UNCHANGED <<files, embeddings, embeddings_enabled, agent, workers>>

NextCodec ==
    \/ \E item \in ValidItems : Encode(item)
    \/ \E line \in DecoderInputs : Decode(line)

SpecCodec == InitStore /\ [][NextCodec]_vars

\* C23: decoding the line the encoder makes of a valid item gives back the
\* item's id, date, content and links, and decoding a line that does not
\* match the pattern gives the empty result.
C23_CodecRoundTrip ==
    /\ call.op = "encode" => result = call.item
    /\ call.op = "decode" /\ ~MatchesPattern(env.line) => result = NullItem

\* ------------------------------------------------------------------------
\* Lines of the older form [id] content
\* ------------------------------------------------------------------------
\* the items the operation of the last call parsed out of the category file
ParsedPreItems ==
    IF UpdateCalled THEN extract_memory_items_from_content(PreText)
    ELSE parse_memory_items(PreText)

\* C24: when a reconciling update or a link call reads a category file that
\* holds a line of the form [id] content, the items it parses out of the
\* file include one with the id and the content of that line.
C24_LegacyLinesDecodable ==
    /\ UpdateCalled \/ LinkCalled
    /\ env.fault = "none"
    /\ UpdateCalled => env.llm \in {"ok", "fail"} /\ call.category \in BasicCategories
    => \A i \in 1..Len(PreText) :
           PreText[i].kind = "legacy" =>
               \E j \in 1..Len(ParsedPreItems) :
                   /\ ParsedPreItems[j].memory_id = PreText[i].memory_id
                   /\ ParsedPreItems[j].content = PreText[i].content

\* ------------------------------------------------------------------------
\* Deleting a category file
\* ------------------------------------------------------------------------
DeleteCalled == call.op = "delete_memory_file"

\* C25: delete_memory_file on a category without a file returns true and
\* changes nothing; whenever unlink does not fail it returns true, the file
\* of the category is absent afterwards, whether it was there before or had
\* been deleted already, the other files are as they were, and reading a
\* category without a file gives the empty string.
C25_IdempotentDelete ==
    /\ DeleteCalled /\ ~FileExists(pre.files, call.category) =>
           result.ok /\ files = pre.files
    /\ DeleteCalled /\ env.wr = "ok" =>
           /\ result.ok
           /\ ~FileExists(files, call.category)
           /\ \A f \in DOMAIN pre.files \ {GetMemoryFilePath(call.category)} :
                  f \in DOMAIN files /\ files[f] = pre.files[f]
           /\ read_memory_file(files, call.category, "ok") = <<>>
    /\ call.op = "read_memory_file" /\ ~FileExists(files, call.category) =>
           result.text = <<>>

\* a delete of a category that has no file, in a store that holds the file
\* of the other category
C25_Witness ==
    /\ DeleteCalled
    /\ call.category = "profile"
    /\ ~FileExists(pre.files, "profile")
    /\ FileExists(pre.files, "activity")
    /\ result.ok
    /\ files = pre.files

\* ------------------------------------------------------------------------
\* generate_memory_suggestions
\* ------------------------------------------------------------------------
\* a stripped line of the response: "**Category: <name>**", "- Suggestion:
\* <text>" (the text may be empty), or anything else
SuggestionLine(kind, name, text) == [kind |-> kind, name |-> name, text |-> text]

SuggestionLines ==
    {SuggestionLine("category", n, "") : n \in {"profile", "event", "activity", "hobby"}}
    \cup {SuggestionLine("suggestion", "", t) : t \in {"x", ""}}
    \cup {SuggestionLine("other", "", "x")}

SuggestionTexts == SeqsUpTo(SuggestionLines, MaxSuggestionLines) \ {<<>>}

\* a parser that takes every category the response names
CategoryAccepted_Any(category_name, available_categories) == TRUE

\* category_name in available_categories
CategoryAccepted(category_name, available_categories) ==
    \E i \in 1..Len(available_categories) : available_categories[i] = category_name

\* the loop of _parse_suggestions_from_text from line i on: suggestions maps
\* a category to the texts added to its string, current_category is "" for None
RECURSIVE ParseSuggestionsFrom(_, _, _, _, _)
ParseSuggestionsFrom(lines, i, available_categories, current_category, suggestions) ==
    IF i > Len(lines) THEN suggestions
    ELSE LET line == lines[i]
         IN  IF line.kind = "category"
             THEN IF CategoryAccepted(line.name, available_categories)
                  THEN ParseSuggestionsFrom(lines, i + 1, available_categories, line.name,
                           [c \in DOMAIN suggestions \cup {line.name} |->
                               IF c = line.name THEN <<>> ELSE suggestions[c]])
                  ELSE ParseSuggestionsFrom(lines, i + 1, available_categories,
                           current_category, suggestions)
             ELSE IF current_category # "" /\ line.kind = "suggestion"
             THEN ParseSuggestionsFrom(lines, i + 1, available_categories, current_category,
                      [suggestions EXCEPT ![current_category] = Append(@, line.text)])
             ELSE ParseSuggestionsFrom(lines, i + 1, available_categories,
                      current_category, suggestions)

\* v.strip() of a string made of suggestion texts, each followed by "\n"
HasSuggestionText(texts) == \E i \in 1..Len(texts) : texts[i] # ""

\* _parse_suggestions_from_text
parse_suggestions_from_text(response_text, available_categories) ==
    LET suggestions == ParseSuggestionsFrom(response_text, 1, available_categories, "", <<>>)
        kept == {k \in DOMAIN suggestions : HasSuggestionText(suggestions[k])}
    IN  [k \in kept |-> suggestions[k]]

\* _get_available_categories: the basic categories other than activity
get_available_categories == <<"profile", "event">>

\* available_categories arguments: None, an empty list, or a list
NoCategories == [given |-> FALSE, list |-> <<>>]

AvailableCategoryChoices ==
    {NoCategories, [given |-> TRUE, list |-> <<>>], [given |-> TRUE, list |-> <<"hobby", "event">>]}

AvailableCategories(available_categories) ==
    IF available_categories.given THEN available_categories.list
    ELSE get_available_categories

SuggestionFailure == [success |-> FALSE, suggestions |-> <<>>]

\* execute: the result
generate_memory_suggestions(new_memory_items, available_categories, llm, response) ==
    IF new_memory_items = <<>> \/ AvailableCategories(available_categories) = <<>>
    THEN SuggestionFailure
    ELSE IF llm \in {"raise", "empty"} THEN SuggestionFailure
    ELSE [success |-> TRUE,
          suggestions |->
              parse_suggestions_from_text(
                  IF llm = "fail" THEN <<SuggestionLine("other", "", ErrorContent)>>
                  ELSE response,
                  AvailableCategories(available_categories))]

GenerateMemorySuggestions(new_memory_items, available_categories, llm, response) ==
    /\ Idle
    /\ call' = [op |-> "generate_memory_suggestions", new_memory_items |-> new_memory_items,
                available_categories |-> available_categories]
    /\ env' = [llm |-> llm, response |-> response, fault |-> "none"]
    /\ pre' = Snapshot
    /\ result' = generate_memory_suggestions(new_memory_items, available_categories,
                                             llm, response)
    /\ UNCHANGED <<files, embeddings, embeddings_enabled, agent, workers>>

NextSuggest ==
    \E new_memory_items \in {<<>>, <<ItemA>>}, available_categories \in AvailableCategoryChoices :
        \/ \E response \in SuggestionTexts :
              GenerateMemorySuggestions(new_memory_items, available_categories, "ok", response)
        \/ \E llm \in {"empty", "fail", "raise"} :
              GenerateMemorySuggestions(new_memory_items, available_categories, llm, <<>>)

SpecSuggest == InitStore /\ [][NextSuggest]_vars

SuggestCalled == call.op = "generate_memory_suggestions"

\* C26: every category of the suggestions generate_memory_suggestions
\* returns is one of the available categories, and the suggestion text of
\* every returned category is non-empty.
C26_SuggestionsWithinAvailable ==
    SuggestCalled /\ result.success =>
        \A k \in DOMAIN result.suggestions :
            /\ \E i \in 1..Len(AvailableCategories(call.available_categories)) :
                   AvailableCategories(call.available_categories)[i] = k
            /\ \E i \in 1..Len(result.suggestions[k]) : result.suggestions[k][i] # ""

\* a response that names a category outside the default set, gives a
\* suggestion for profile and names event without a suggestion
C26_Witness ==
    /\ SuggestCalled
    /\ ~call.available_categories.given
    /\ env.llm = "ok"
    /\ env.response = <<SuggestionLine("category", "hobby", ""),
                        SuggestionLine("category", "profile", ""),
                        SuggestionLine("suggestion", "", "x"),
                        SuggestionLine("category", "event", "")>>
    /\ result.success
    /\ DOMAIN result.suggestions = {"profile"}

\* ------------------------------------------------------------------------
\* cluster_memories
\* ------------------------------------------------------------------------
\* a line of a clustering response: whether it starts with "- ", whether
\* what follows holds ": ", the text before the separator, stripped, and the
\* pieces split(",") makes of the text after it
ClusterLine(bullet, separator, key, values) ==
    [bullet |-> bullet, separator |-> separator, key |-> key, values |-> values]

\* a piece of the comma-separated list: its text, and whether whitespace
\* stands around it (as after ", ")
Piece(text, padded) == [text |-> text, padded |-> padded]

OtherLine == ClusterLine(FALSE, FALSE, "", <<>>)

\* "- a" and the like: a bullet without ": "
BulletWithoutSeparator == ClusterLine(TRUE, FALSE, "a", <<>>)

\* the lines of the merge response: "- <memory id>: <clusters>"
MergeLines ==
    {OtherLine, BulletWithoutSeparator,
     ClusterLine(TRUE, TRUE, "a", <<Piece("hobby", FALSE)>>),
     ClusterLine(TRUE, TRUE, "a", <<Piece("hobby", FALSE), Piece("gym", TRUE)>>),
     ClusterLine(TRUE, TRUE, "b", <<Piece("hobby", FALSE), Piece("gym", FALSE)>>),
     ClusterLine(TRUE, TRUE, "a", <<Piece("chess", FALSE)>>),
     ClusterLine(TRUE, TRUE, "q", <<Piece("hobby", FALSE)>>)}

\* the lines of the detect response: "- <event name>: <memory ids>"
DetectLines ==
    {OtherLine, BulletWithoutSeparator,
     ClusterLine(TRUE, TRUE, "gym", <<Piece("a", FALSE)>>),
     ClusterLine(TRUE, TRUE, "chess", <<Piece("a", FALSE), Piece("b", TRUE)>>),
     ClusterLine(TRUE, TRUE, "chess", <<Piece("q", FALSE)>>)}

\* _format_memory_item: the line ends with the item's own id as its links
format_memory_item(memory_item) ==
    <<Line("item", memory_item.memory_id, memory_item.mentioned_at,
           memory_item.content, <<memory_item.memory_id>>)>>

\* all_items: the items by memory_id
ItemWithId(all_items, memory_id) ==
    LET hits == SelectSeq(all_items, LAMBDA item : item.memory_id = memory_id)
    IN  hits[Len(hits)]

\* `cluster not in existing_clusters` for a piece of clusters.split(","):
\* the piece is compared as it is, without strip
NamesExistingCluster(piece, existing_clusters) ==
    ~piece.padded /\ piece.text \in existing_clusters

\* the inner loop of _merge_existing_clusters: for cluster in clusters.split(",")
RECURSIVE MergeClusters(_, _, _, _, _)
MergeClusters(fs, pieces, j, existing_clusters, memory_item) ==
    IF j > Len(pieces) THEN fs
    ELSE IF ~NamesExistingCluster(pieces[j], existing_clusters)
    THEN MergeClusters(fs, pieces, j + 1, existing_clusters, memory_item)
    ELSE MergeClusters(
             append_memory_file(fs, pieces[j].text, format_memory_item(memory_item),
                                "ok", "ok").files,
             pieces, j + 1, existing_clusters, memory_item)

\* the loop of _merge_existing_clusters over the lines of the response:
\* [files, raised]; line[2:].split(": ", 1) of a line without ": " gives one
\* piece, and the assignment to two names raises ValueError
RECURSIVE MergeLoop(_, _, _, _, _)
MergeLoop(fs, lines, i, existing_clusters, all_items) ==
    IF i > Len(lines) THEN [files |-> fs, raised |-> FALSE]
    ELSE LET line == lines[i]
         IN  IF ~line.bullet
             THEN MergeLoop(fs, lines, i + 1, existing_clusters, all_items)
             ELSE IF ~line.separator THEN [files |-> fs, raised |-> TRUE]
             ELSE IF line.key \notin ItemIds(all_items)
             THEN MergeLoop(fs, lines, i + 1, existing_clusters, all_items)
             ELSE MergeLoop(MergeClusters(fs, line.values, 1, existing_clusters,
                                          ItemWithId(all_items, line.key)),
                            lines, i + 1, existing_clusters, all_items)

\* _merge_existing_clusters; an empty response returns before the loop
merge_existing_clusters(fs, response, existing_clusters, all_items) ==
    MergeLoop(fs, response, 1, existing_clusters, all_items)

\* create_cluster_category: an empty file when there is none
create_cluster_category(fs, category) ==
    IF FileExists(fs, category) THEN fs ELSE PutFile(fs, category, <<>>)

\* the inner loop of _detect_new_clusters: for memory_id in memory_ids.split(",");
\* new_clusters[cluster].append raises KeyError for a cluster this call did
\* not create: [files, raised]
RECURSIVE DetectIds(_, _, _, _, _, _)
DetectIds(fs, pieces, j, cluster, created, all_items) ==
    IF j > Len(pieces) THEN [files |-> fs, raised |-> FALSE]
    ELSE IF pieces[j].text \notin ItemIds(all_items)
    THEN DetectIds(fs, pieces, j + 1, cluster, created, all_items)
    ELSE LET appended == append_memory_file(fs, cluster,
                             format_memory_item(ItemWithId(all_items, pieces[j].text)),
                             "ok", "ok").files
         IN  IF cluster \notin created THEN [files |-> appended, raised |-> TRUE]
             ELSE DetectIds(appended, pieces, j + 1, cluster, created, all_items)

\* the loop of _detect_new_clusters: clusters is memory_types["cluster"],
\* created the keys of new_clusters
RECURSIVE DetectLoop(_, _, _, _, _, _)
DetectLoop(fs, lines, i, clusters, created, all_items) ==
    IF i > Len(lines) THEN [files |-> fs, raised |-> FALSE]
    ELSE LET line == lines[i]
         IN  IF ~line.bullet
             THEN DetectLoop(fs, lines, i + 1, clusters, created, all_items)
             ELSE IF ~line.separator THEN [files |-> fs, raised |-> TRUE]
             ELSE LET is_new == line.key \notin clusters
                      fs1 == IF is_new THEN create_cluster_category(fs, line.key) ELSE fs
                      created1 == IF is_new THEN created \cup {line.key} ELSE created
                      done == DetectIds(fs1, line.values, 1, line.key, created1, all_items)
                  IN  IF done.raised THEN done
                      ELSE DetectLoop(done.files, lines, i + 1, clusters \cup {line.key},
                                      created1, all_items)

detect_new_clusters(fs, response, clusters, all_items) ==
    DetectLoop(fs, response, 1, clusters, {}, all_items)

\* execute, as call_function sees it: [files, raised]; what raises in a
\* sub-step ends the call there
cluster_memories(fs, new_memory_items, merge_response, detect_response) ==
    LET existing_clusters == get_cluster_categories(fs, BasicCategories)
        merged == IF existing_clusters # {}
                  THEN merge_existing_clusters(fs, merge_response, existing_clusters,
                                               new_memory_items)
                  ELSE [files |-> fs, raised |-> FALSE]
    IN  IF merged.raised THEN merged
        ELSE detect_new_clusters(merged.files, detect_response, existing_clusters,
                                 new_memory_items)

ClusterMemories(new_memory_items, merge_response, detect_response) ==
    LET r == cluster_memories(files, new_memory_items, merge_response, detect_response)
    IN  /\ Idle
        /\ call' = [op |-> "cluster_memories", new_memory_items |-> new_memory_items]
        /\ env' = [merge_response |-> merge_response,
                   detect_response |-> detect_response, fault |-> "none"]
        /\ pre' = Snapshot
        /\ files' = r.files
        /\ result' = [success |-> ~r.raised]
        /\ UNCHANGED <<embeddings, embeddings_enabled, agent, workers>>

\* the items of a conversation
NewMemoryItems ==
    <<MemoryItem("a", "d2", "x", <<>>), MemoryItem("b", "d2", "y", <<>>)>>

\* a store with the cluster files hobby and gym, and one without a cluster
InitCluster ==
    /\ files \in {[c \in {"profile", "hobby", "gym"} |->
                      IF c = "gym" THEN <<>> ELSE <<ItemC>>],
                  [c \in {"profile"} |-> <<ItemA>>]}
    /\ embeddings = <<>>
    /\ embeddings_enabled = TRUE
    /\ call = NoCall
    /\ env = [fault |-> "none"]
    /\ pre = Snapshot
    /\ result = [success |-> TRUE]
    /\ agent = AgentIdle
    /\ workers = NoWorkers

NextCluster ==
    \E merge_response \in SeqsUpTo(MergeLines, MaxClusterLines), detect_response \in SeqsUpTo(DetectLines, MaxClusterLines) :
        ClusterMemories(NewMemoryItems, merge_response, detect_response)

SpecCluster == InitCluster /\ [][NextCluster]_vars

ClusterCalled == call.op = "cluster_memories"

\* the lines of a response that have the form "- key: values"
FormattedLines(response) ==
    SelectSeq(response, LAMBDA line : line.bullet /\ line.separator)

\* what the call gives when the responses hold their formatted lines only
WithoutOtherLines ==
    cluster_memories(pre.files, call.new_memory_items,
                     FormattedLines(env.merge_response),
                     FormattedLines(env.detect_response))

\* C27: the lines of the merge and detect responses that do not have the
\* form "- key: values", a line "- key" without ": " included, are ignored:
\* the call leaves the files, and raises or not, as it does for the
\* responses without these lines.
C27_TolerantClusterParsing ==
    ClusterCalled =>
        /\ files = WithoutOtherLines.files
        /\ result.success = ~WithoutOtherLines.raised

\* the line of an item of the call in a cluster file
HoldsItemLine(fs, cluster, memory_id) ==
    /\ FileExists(fs, cluster)
    /\ \E k \in 1..Len(FileText(fs, cluster)) :
           <<FileText(fs, cluster)[k]>> =
               format_memory_item(ItemWithId(call.new_memory_items, memory_id))

\* the existing clusters the merge response assigns the item to
AssignedClusters(memory_id) ==
    {c \in get_cluster_categories(pre.files, BasicCategories) :
        \E i \in 1..Len(env.merge_response) :
            /\ env.merge_response[i].bullet
            /\ env.merge_response[i].separator
            /\ env.merge_response[i].key = memory_id
            /\ \E j \in 1..Len(env.merge_response[i].values) :
                   env.merge_response[i].values[j].text = c}

\* C28: after a merge whose response has formatted lines only, with an empty
\* detect response, the line of every new item is in the file of every
\* existing cluster its response line lists, whether the list is written
\* "c1,c2" or "c1, c2", and in the file of no other cluster.
C28_ManyToManyMerge ==
    /\ ClusterCalled
    /\ env.detect_response = <<>>
    /\ FormattedLines(env.merge_response) = env.merge_response
    => \A memory_id \in ItemIds(call.new_memory_items) :
           \A c \in get_cluster_categories(pre.files, BasicCategories) :
               HoldsItemLine(files, c, memory_id) <=> c \in AssignedClusters(memory_id)

\* ------------------------------------------------------------------------
\* Item-level recall over the embedding sidecars
\* ------------------------------------------------------------------------
\* similarity > 0.1
MinSemanticScore == Similarity(1, 100)

AboveThreshold(similarity) == ~SimGeq(MinSemanticScore, similarity)

\* embeddings_dir.glob("*_embeddings.json"): the sidecars in directory order
SidecarOrders(embs) ==
    {order \in [1..Cardinality(DOMAIN embs) -> DOMAIN embs] :
        \A i, j \in DOMAIN order : order[i] = order[j] => i = j}

RECURSIVE RelevantRecords(_, _, _, _)
\* the loop over the sidecars: a sidecar that fails to load gives no result
RelevantRecords(embs, sidecar_order, query_embedding, fault) ==
    IF sidecar_order = <<>> THEN <<>>
    ELSE LET category == Head(sidecar_order)
             embeddings_data == IF fault = "sidecar_error" THEN <<>>
                                ELSE embs[category]
             scored == [i \in 1..Len(embeddings_data) |->
                          [content |-> embeddings_data[i].text,
                           category |-> category,
                           item_id |-> embeddings_data[i].item_id,
                           memory_id |-> embeddings_data[i].memory_id,
                           line_number |-> embeddings_data[i].line_number,
                           similarity |-> cosine_similarity(query_embedding,
                                              embeddings_data[i].embedding)]]
         IN  SelectSeq(scored, LAMBDA r : AboveThreshold(r.similarity))
             \o RelevantRecords(embs, Tail(sidecar_order), query_embedding, fault)

\* retrieve_relevant_memories: the result dictionary
retrieve_relevant_memories(embs, query, top_k, semantic_search_enabled, embed_raises, sidecar_order, fault) ==
    IF ~semantic_search_enabled \/ embed_raises THEN [success |-> FALSE, results |-> <<>>]
    ELSE LET results == SortBySimilarity(
                            RelevantRecords(embs, sidecar_order, embed(query), fault))
         IN  [success |-> TRUE, results |-> Take(results, top_k)]

RetrieveRelevantMemories(query, top_k, semantic_search_enabled, embed_raises, sidecar_order, fault) ==
    /\ Idle
    /\ call' = [op |-> "retrieve_relevant_memories", query |-> query, top_k |-> top_k,
                semantic_search_enabled |-> semantic_search_enabled]
    /\ env' = [embed_raises |-> embed_raises, sidecar_order |-> sidecar_order,
               fault |-> fault]
    /\ pre' = Snapshot
    /\ result' = retrieve_relevant_memories(embeddings, query, top_k,
                     semantic_search_enabled, embed_raises, sidecar_order, fault)
    /\ UNCHANGED <<files, embeddings, embeddings_enabled, agent, workers>>

\* every operation of the memory agent and the item-level recall, called on
\* a store with sidecars
NextSidecar ==
    \/ Next
    \/ \E merge_response \in SeqsUpTo(MergeLines, 1), detect_response \in SeqsUpTo(DetectLines, 1) :
          ClusterMemories(NewMemoryItems, merge_response, detect_response)
    \/ \E query \in Contents, top_k \in TopKs, semantic_search_enabled \in BOOLEAN,
          embed_raises \in BOOLEAN, fault \in {"none", "sidecar_error"} :
          \E sidecar_order \in SidecarOrders(embeddings) :
              RetrieveRelevantMemories(query, top_k, semantic_search_enabled,
                                       embed_raises, sidecar_order, fault)

SpecSidecar == Init /\ [][NextSidecar]_vars

\* ------------------------------------------------------------------------
\* Embedding sidecars: records are only ever appended
\* ------------------------------------------------------------------------
RecallCalled == call.op = "retrieve_relevant_memories"

\* the sidecar of a category still starts with the records it held
RecordsKept(category) ==
    /\ category \in DOMAIN embeddings
    /\ Len(pre.embeddings[category]) <= Len(embeddings[category])
    /\ \A i \in 1..Len(pre.embeddings[category]) :
          embeddings[category][i] = pre.embeddings[category][i]

\* ids the operations of the response update or delete
RewrittenIds ==
    {env.operation_list[i].target_id :
        i \in {j \in 1..Len(env.operation_list) :
                  env.operation_list[j].operation \in {"UPDATE", "DELETE"}}}

NumRecords(embs) ==
    LET RECURSIVE Sum(_)
        Sum(S) == IF S = {} THEN 0
                  ELSE LET c == CHOOSE x \in S : TRUE
                       IN  Len(embs[c]) + Sum(S \ {c})
    IN  Sum(DOMAIN embs)

\* a query near the record gets the record back from the sidecars
Recallable(category, record) ==
    \A query \in Contents :
        AboveThreshold(cosine_similarity(embed(query), record.embedding)) =>
            \A sidecar_order \in SidecarOrders(embeddings) :
                LET r == retrieve_relevant_memories(embeddings, query,
                             NumRecords(embeddings), TRUE, FALSE, sidecar_order,
                             "none")
                IN  \E i \in 1..Len(r.results) :
                        /\ r.results[i].category = category
                        /\ r.results[i].memory_id = record.memory_id
                        /\ r.results[i].content = record.text

TaskIds == {"t1", "t2", "t3"}

NoTask == [status |-> "none"]

\* the outcomes of MemoryService.memorize_conversation: a result dictionary
\* of a run that succeeded or failed, or an exception
MemorizeOutcomes == {"result_success", "result_failure", "raised"}

\* TaskService.create_task: the table after it
create_task(tasks, task_id, task_type, task_data) ==
    [t \in DOMAIN tasks \cup {task_id} |->
        IF t = task_id
        THEN [id |-> task_id, type |-> task_type, status |-> "PENDING",
              data |-> task_data, result |-> "None", error |-> "None"]
        ELSE tasks[t]]

\* TaskService.get_task: NoTask for None
get_task(tasks, task_id) == IF task_id \in DOMAIN tasks THEN tasks[task_id] ELSE NoTask

\* TaskService.update_task: the table after it
update_task(tasks, task_id, status, task_result, error) ==
    IF task_id \notin DOMAIN tasks THEN tasks
    ELSE [tasks EXCEPT ![task_id] =
            [@ EXCEPT !.status = status,
                      !.result = IF task_result # "None" THEN task_result ELSE @,
                      !.error = IF error # "None" THEN error ELSE @]]

\* a handler that queues a failed task again
finish_memorization_task_Requeue(tasks, task_id, outcome) ==
    IF outcome = "raised" THEN update_task(tasks, task_id, "PENDING", "None", "error")
    ELSE update_task(tasks, task_id, "SUCCESS", outcome, "None")

\* a handler without except block: an exception leaves the task as it is
finish_memorization_task_Uncaught(tasks, task_id, outcome) ==
    IF outcome = "raised" THEN tasks
    ELSE update_task(tasks, task_id, "SUCCESS", outcome, "None")

\* _process_memorization_task after memorize_conversation has ended: the
\* result is stored with SUCCESS, an exception with FAILURE
finish_memorization_task(tasks, task_id, outcome) ==
    IF outcome = "raised" THEN update_task(tasks, task_id, "FAILURE", "None", "error")
    ELSE update_task(tasks, task_id, "SUCCESS", outcome, "None")

\* the table of the task service
TaskTable == workers.tasks

\* where the background task of a task is: queued, memorizing, done
TaskPc == workers.pc

\* POST /memorize: a request without conversation is refused with 422 before
\* a task is created; otherwise a task is created and its processing queued
MemorizeConversation(task_id, has_conversation) ==
    /\ task_id \notin DOMAIN TaskTable
    /\ call' = [op |-> "memorize_conversation", task_id |-> task_id,
                has_conversation |-> has_conversation]
    /\ IF has_conversation
       THEN /\ workers' = [tasks |-> create_task(TaskTable, task_id, "memorize",
                                                 "conversation"),
                           pc |-> [t \in DOMAIN TaskPc \cup {task_id} |->
                                     IF t = task_id THEN "queued" ELSE TaskPc[t]]]
            /\ result' = [status_code |-> 200, task_id |-> task_id,
                          status |-> "PENDING"]
       ELSE /\ workers' = workers
            /\ result' = [status_code |-> 422, task_id |-> "None", status |-> "None"]
    /\ UNCHANGED <<files, embeddings, embeddings_enabled, env, pre, agent>>

\* _process_memorization_task up to the await of memorize_conversation
StartMemorizationTask(task_id) ==
    /\ task_id \in DOMAIN TaskPc
    /\ TaskPc[task_id] = "queued"
    /\ workers' = [tasks |-> update_task(TaskTable, task_id, "PROCESSING", "None",
                                         "None"),
                   pc |-> [TaskPc EXCEPT ![task_id] = "memorizing"]]
    /\ UNCHANGED <<files, embeddings, embeddings_enabled, call, env, pre, result,
                   agent>>

\* _process_memorization_task from the end of memorize_conversation
FinishMemorizationTask(task_id, outcome) ==
    /\ task_id \in DOMAIN TaskPc
    /\ TaskPc[task_id] = "memorizing"
    /\ workers' = [tasks |-> finish_memorization_task(TaskTable, task_id, outcome),
                   pc |-> [TaskPc EXCEPT ![task_id] = "done"]]
    /\ UNCHANGED <<files, embeddings, embeddings_enabled, call, env, pre, result,
                   agent>>

\* GET /memorize/status/{task_id}
GetMemorizationStatus(task_id) ==
    LET task == get_task(TaskTable, task_id)
    IN  /\ call' = [op |-> "get_memorization_status", task_id |-> task_id,
                    has_conversation |-> FALSE]
        /\ result' = IF task = NoTask
                     THEN [status_code |-> 404, task_id |-> task_id,
                           status |-> "None"]
                     ELSE [status_code |-> 200, task_id |-> task_id,
                           status |-> task.status]
        /\ UNCHANGED <<files, embeddings, embeddings_enabled, env, pre, agent,
                       workers>>

InitTasks ==
    /\ files = <<>>
    /\ embeddings = <<>>
    /\ embeddings_enabled = TRUE
    /\ call = NoCall
    /\ env = [fault |-> "none"]
    /\ pre = Snapshot
    /\ result = [success |-> TRUE]
    /\ agent = AgentIdle
    /\ workers = [tasks |-> <<>>, pc |-> <<>>]

NextTasks ==
    \/ \E task_id \in TaskIds, has_conversation \in BOOLEAN :
          MemorizeConversation(task_id, has_conversation)
    \/ \E task_id \in TaskIds : StartMemorizationTask(task_id)
    \/ \E task_id \in TaskIds, outcome \in MemorizeOutcomes :
          FinishMemorizationTask(task_id, outcome)
    \/ \E task_id \in TaskIds : GetMemorizationStatus(task_id)

SpecTasks == InitTasks /\ [][NextTasks]_vars

\* ------------------------------------------------------------------------
\* Task status lifecycle
\* ------------------------------------------------------------------------
TaskStatuses == {"PENDING", "PROCESSING", "SUCCESS", "FAILURE"}

StatusOf(tasks, task_id) == get_task(tasks, task_id).status

\* the moves of a status in one step: none, creation, or one step forward
StatusMove(before, after) ==
    \/ after = before
    \/ before = "none" /\ after = "PENDING"
    \/ before = "PENDING" /\ after = "PROCESSING"
    \/ before = "PROCESSING" /\ after \in {"SUCCESS", "FAILURE"}

StatusQueried == call.op = "get_memorization_status" /\ result.status_code = 200

\* C30: the status of every memorize task is one of PENDING, PROCESSING,
\* SUCCESS, FAILURE; a task is created PENDING, its processing moves it from
\* PENDING to PROCESSING and from there to SUCCESS or FAILURE, no step moves
\* it backwards or changes it once it is SUCCESS or FAILURE, and a status
\* query of a task answers one of the four values.
C30_TaskStatusLifecycle ==
    /\ [](/\ \A t \in DOMAIN workers.tasks : workers.tasks[t].status \in TaskStatuses
          /\ StatusQueried => result.status \in TaskStatuses
          /\ call.op = "memorize_conversation" /\ result.status_code = 200 =>
                result.status = "PENDING")
    /\ [][\A t \in TaskIds :
            StatusMove(StatusOf(workers.tasks, t), StatusOf(workers'.tasks, t))]_vars

\* one task has failed, another has succeeded, a third is being processed,
\* and the status of the failed one has been queried
C30_Witness ==
    /\ \E t \in DOMAIN workers.tasks : workers.tasks[t].status = "SUCCESS"
    /\ \E t \in DOMAIN workers.tasks : workers.tasks[t].status = "PROCESSING"
    /\ StatusQueried
    /\ result.status = "FAILURE"
    /\ workers.tasks[result.task_id].status = "FAILURE"

\* ------------------------------------------------------------------------
\* Ingest: what a successful call leaves in the activity file
\* ------------------------------------------------------------------------
\* the text the formatting call handed to execute
IngestedText == IF env.llm = "fail" THEN ErrorText ELSE env.output

\* one encoded line with empty links per non-blank line, in order
IngestedLines ==
    LET lines == NonBlankLines(IngestedText)
    IN  [i \in 1..Len(lines) |->
            Line("item", env.ids[i], SessionDate(call.session_date),
                 lines[i].content, <<>>)]

\* ids of the item lines of every file of a store
IdsInFiles(fs) ==
    UNION {{fs[f][i].memory_id : i \in 1..Len(fs[f])} : f \in DOMAIN fs} \ {NoId}

\* the ids of the new lines are pairwise distinct and in use nowhere
FreshIds(lines, fs) ==
    /\ \A i, j \in 1..Len(lines) : lines[i].memory_id = lines[j].memory_id => i = j
    /\ \A i \in 1..Len(lines) : lines[i].memory_id \notin IdsInFiles(fs)

\* C31: after a successful add_activity_memory the activity file is its
\* previous content followed by one encoded line, with a fresh id, the
\* session date and empty links, per non-empty line of the model output in
\* output order; the returned memory_items are those items; no other file
\* changes.
C31_IngestEffect ==
    AddCalled /\ result.success =>
        /\ StoredText(files, "activity")
              = StoredText(pre.files, "activity") \o IngestedLines
        /\ FreshIds(IngestedLines, pre.files)
        /\ result.memory_items
              = [i \in 1..Len(IngestedLines) |-> ItemOfLine(IngestedLines[i])]
        /\ \A f \in (DOMAIN files \cup DOMAIN pre.files) \ {"activity"} :
              f \in DOMAIN files /\ f \in DOMAIN pre.files /\ files[f] = pre.files[f]

\* the same effect for a call whose store reads work and whose new ids are
\* fresh: what is left of the claim
C31_IngestEffectFreshRead ==
    AddCalled /\ result.success /\ env.fault # "read_error"
              /\ FreshIds(IngestedLines, pre.files) =>
        /\ StoredText(files, "activity")
              = StoredText(pre.files, "activity") \o IngestedLines
        /\ result.memory_items
              = [i \in 1..Len(IngestedLines) |-> ItemOfLine(IngestedLines[i])]
        /\ \A f \in (DOMAIN files \cup DOMAIN pre.files) \ {"activity"} :
              f \in DOMAIN files /\ f \in DOMAIN pre.files /\ files[f] = pre.files[f]

\* ------------------------------------------------------------------------
\* Reconciling update: the lines a call keeps
\* ------------------------------------------------------------------------
\* ids the operations of the response delete
DeletedIds ==
    {env.operation_list[i].target_id :
        i \in {j \in 1..Len(env.operation_list) :
                  env.operation_list[j].operation = "DELETE"}}

\* contents the operations of the response give to an id
UpdatedContents(memory_id) ==
    {env.operation_list[i].memory_content :
        i \in {j \in 1..Len(env.operation_list) :
                  /\ env.operation_list[j].operation = "UPDATE"
                  /\ env.operation_list[j].target_id = memory_id}}

\* the file still holds the line: same id, and its content or the content
\* an UPDATE gave it
StillHeld(line) ==
    \E j \in 1..Len(PostText) :
        /\ PostText[j].memory_id = line.memory_id
        /\ \/ PostText[j].content = line.content
           \/ /\ line.memory_id # NoId
              /\ PostText[j].content \in UpdatedContents(line.memory_id)

\* C32: after update_memory_with_suggestions every line the category file
\* held before the call that no DELETE operation targets is still in the
\* file, with its content replaced when an UPDATE targets it; lines of the
\* legacy form [id] content are kept too, and so is every line when the
\* response yields no operation.
C32_UpdateKeepsHistory ==
    UpdateCalled /\ call.category \in BasicCategories =>
        \A i \in 1..Len(PreText) :
            PreText[i] # EmptyLine /\ PreText[i].memory_id \notin DeletedIds =>
                StillHeld(PreText[i])

\* a call without store fault whose response parsed to no operation and
\* which dropped a legacy line
C32_LegacyLineDropped ==
    /\ UpdateCalled
    /\ env.llm = "ok"
    /\ env.fault = "none"
    /\ env.operation_list = <<>>
    /\ \E i \in 1..Len(PreText) : PreText[i].kind = "legacy" /\ ~StillHeld(PreText[i])

\* ------------------------------------------------------------------------
\* Cluster detection: which cluster files it writes
\* ------------------------------------------------------------------------
\* the clusters known when the call started
KnownClusters == get_cluster_categories(pre.files, BasicCategories)

\* the store as the merge sub-step of the call left it
AfterMerge ==
    IF KnownClusters # {}
    THEN merge_existing_clusters(pre.files, env.merge_response, KnownClusters,
                                 call.new_memory_items)
    ELSE [files |-> pre.files, raised |-> FALSE]

\* the detect sub-step ran, on a response of formatted lines
DetectRan ==
    /\ ClusterCalled
    /\ ~AfterMerge.raised
    /\ env.detect_response = FormattedLines(env.detect_response)

\* C33: the detect sub-step appends item lines only to clusters that were
\* not known before the call, each created first: a response line naming a
\* known cluster leaves the file of that cluster as the merge sub-step left
\* it, and the lines of the response naming new clusters are applied all
\* the same, so the call succeeds.
C33_DetectWritesNewClustersOnly ==
    DetectRan =>
        /\ \A c \in KnownClusters :
              FileExists(files, c) /\ FileText(files, c) = FileText(AfterMerge.files, c)
        /\ \A i \in 1..Len(env.detect_response) :
              env.detect_response[i].key \notin KnownClusters =>
                  \A j \in 1..Len(env.detect_response[i].values) :
                      LET memory_id == env.detect_response[i].values[j].text
                      IN  memory_id \in ItemIds(call.new_memory_items) =>
                              HoldsItemLine(files, env.detect_response[i].key,
                                            memory_id)
        /\ result.success

\* a detect response named the known cluster gym and then a new cluster,
\* and the file of gym grew while the new cluster was not created
C33_KnownClusterWritten ==
    /\ DetectRan
    /\ env.merge_response = <<>>
    /\ "gym" \in KnownClusters
    /\ Len(env.detect_response) = 2
    /\ env.detect_response[1].key = "gym"
    /\ env.detect_response[2].key = "chess"
    /\ Len(FileText(files, "gym")) > Len(FileText(pre.files, "gym"))
    /\ ~FileExists(files, "chess")
    /\ ~result.success

\* ------------------------------------------------------------------------
\* Link: the shortlist of related memories
\* ------------------------------------------------------------------------
\* every record of the searched sidecars but the target's own, most similar
\* first
RankedCandidates(content, memory_id) ==
    SortBySimilarity(AllCandidates(pre.embeddings,
                                   SearchCategories(call.search_categories),
                                   embed(content), memory_id, env.fault))

\* the candidates at or above min_similarity among the 2 * top_k most
\* similar, cut to top_k
Shortlist(content, memory_id) ==
    Take(SelectSeq(Take(RankedCandidates(content, memory_id), 2 * call.top_k),
                   LAMBDA c : SimGeq(c.similarity, call.min_similarity)),
         call.top_k)

\* the items the category file held when the call started
LinkedItems ==
    parse_memory_items(read_memory_content(pre.files, call.category,
                                           ReadOutcome(env.fault)))

\* C34: with the relevance filter of the language model off, the related
\* memories of a target are the candidates with similarity >= min_similarity
\* among the 2 * top_k most similar candidates of the searched categories,
\* most similar first and cut to top_k; so at most top_k ids are returned
\* and written into a line, none of a candidate below min_similarity.
C34_LinkShortlist ==
    LinkCalled /\ result.success =>
        /\ ~call.link_all_items =>
              LET target == find_memory_item(pre.files, call.category,
                                             call.memory_id, env.fault)[1]
              IN  /\ result.linked_memory_ids
                        = LinkIds(Shortlist(target.content, call.memory_id))
                  /\ Len(result.linked_memory_ids) <= call.top_k
                  /\ \A line \in RewrittenLines :
                        IsTimestampedItem(line) =>
                            line.links = result.linked_memory_ids
        /\ \A line \in RewrittenLines :
              IsTimestampedItem(line) =>
                  /\ Len(line.links) <= call.top_k
                  /\ \E i \in 1..Len(LinkedItems) :
                        /\ LinkedItems[i].memory_id = line.memory_id
                        /\ line.links = LinkIds(Shortlist(LinkedItems[i].content,
                                                          line.memory_id))

\* item a was linked with top_k = 1 while two candidates were similar
\* enough: only the most similar one, b, is returned and written
C34_Witness ==
    /\ LinkCalled
    /\ result.success
    /\ ~call.link_all_items
    /\ call.write_to_memory
    /\ call.memory_id = "a"
    /\ call.top_k = 1
    /\ env.fault = "none"
    /\ Cardinality({i \in 1..Len(RankedCandidates("z", "a")) :
                       SimGeq(RankedCandidates("z", "a")[i].similarity,
                              call.min_similarity)}) >= 2
    /\ result.linked_memory_ids = <<"b">>
    /\ Line("item", "a", "d1", "z", <<"b">>) \in RewrittenLines

\* ------------------------------------------------------------------------
\* Links of the stored items
\* ------------------------------------------------------------------------
\* C35: in every category file, basic or cluster, the links of an item line
\* are ids of other items: no line lists its own memory_id.
C35_NoSelfLinks ==
    \A f \in DOMAIN files :
        \A i \in 1..Len(files[f]) :
            IsTimestampedItem(files[f][i]) =>
                files[f][i].memory_id \notin Range(files[f][i].links)

\* a cluster call wrote the line of item a into a cluster file with a as
\* its own link
C35_SelfLinkWritten ==
    /\ ClusterCalled
    /\ result.success
    /\ \E f \in DOMAIN files \ BasicCategories :
          Line("item", "a", "d2", "x", <<"a">>) \in Range(files[f])

\* ------------------------------------------------------------------------
\* Suggestions: the header a suggestion line stands under
\* ------------------------------------------------------------------------
\* the response the parser was given
ParsedResponse ==
    IF env.llm = "fail" THEN <<SuggestionLine("other", "", ErrorContent)>>
    ELSE env.response

\* the category of the last "**Category: C**" header before line i, "" when
\* there is none
RECURSIVE HeaderAbove(_, _)
HeaderAbove(response, i) ==
    IF i <= 1 THEN ""
    ELSE IF response[i - 1].kind = "category" THEN response[i - 1].name
    ELSE HeaderAbove(response, i - 1)

\* the texts of the suggestion lines that stand under a header of the category
TextsUnder(response, category) ==
    LET under == {i \in 1..Len(response) :
                     /\ response[i].kind = "suggestion"
                     /\ HeaderAbove(response, i) = category}
        Nth(n) == CHOOSE i \in under : Cardinality({j \in under : j < i}) = n - 1
    IN  [n \in 1..Cardinality(under) |-> response[Nth(n)].text]

\* s is t with some entries left out
RECURSIVE IsSubsequence(_, _)
IsSubsequence(s, t) ==
    IF s = <<>> THEN TRUE
    ELSE IF t = <<>> THEN FALSE
    ELSE IF Head(s) = Head(t) THEN IsSubsequence(Tail(s), Tail(t))
    ELSE IsSubsequence(s, Tail(t))

\* C36: the text the parsed suggestions attribute to a category C is made
\* only of "- Suggestion:" lines that stand under a "**Category: C**"
\* header; the suggestion lines under a header of a category outside the
\* available set are attributed to no category.
C36_SuggestionAttribution ==
    SuggestCalled /\ result.success =>
        \A k \in DOMAIN result.suggestions :
            IsSubsequence(result.suggestions[k], TextsUnder(ParsedResponse, k))

\* a suggestion under the header of the unavailable category activity went
\* to profile, the category of the header before it
C36_ForeignSuggestionKept ==
    /\ SuggestCalled
    /\ result.success
    /\ ~call.available_categories.given
    /\ env.llm = "ok"
    /\ env.response = <<SuggestionLine("category", "profile", ""),
                        SuggestionLine("category", "activity", ""),
                        SuggestionLine("suggestion", "", "x")>>
    /\ "profile" \in DOMAIN result.suggestions
    /\ result.suggestions["profile"] = <<"x">>

\* ------------------------------------------------------------------------
\* The conversation of a run: tool calls and their results
\* ------------------------------------------------------------------------
\* the places of the tool messages that carry the id
ToolResults(messages, tool_call_id) ==
    {t \in 1..Len(messages) :
        messages[t].role = "tool" /\ messages[t].tool_call_id = tool_call_id}

\* every tool call of an assistant message has one tool message, after it
ToolCallsAnswered(messages) ==
    \A m \in 1..Len(messages) :
        \A i \in 1..Len(messages[m].tool_calls) :
            LET answers == ToolResults(messages, messages[m].tool_calls[i])
            IN  /\ Cardinality(answers) = 1
                /\ \A t \in answers : t > m

\* run is about to send the conversation to the model
IssuesModelRequest == agent.pc = "loop"

\* C37: whenever run issues a model request, every tool call of an
\* assistant message of the conversation has exactly one tool message with
\* its tool_call_id, placed after that assistant message, also when the
\* arguments of a tool call are not valid JSON.
C37_ToolResultProtocol == IssuesModelRequest => ToolCallsAnswered(agent.messages)

\* the second request of a run is issued while the tool call of the first
\* response, whose arguments were not JSON, has no tool message
C37_UnansweredToolCall ==
    /\ IssuesModelRequest
    /\ agent.requests = 1
    /\ agent.response.tool_calls = <<ToolCall("add_activity_memory", "not_json")>>
    /\ agent.messages = <<SystemMessage, AssistantMessage(1, agent.response.tool_calls)>>

\* ------------------------------------------------------------------------
\* An ingest or a reconciling update followed by a link call
\* ------------------------------------------------------------------------
\* the responses of the first call: one complete operation
ChainOperationLists ==
    {<<Operation("ADD", NoId, "y")>>, <<Operation("UPDATE", "b", "x")>>,
     <<Operation("DELETE", "b", NoContent)>>, <<Operation("DELETE", "c", NoContent)>>}

NextChain ==
    \/ /\ Idle
       /\ UNCHANGED <<agent, workers>>
       /\ \E category \in {"profile", "activity"}, operation_list \in ChainOperationLists :
             \E ids \in IdSeqs(NumAdds(operation_list)) :
                 UpdateMemoryWithSuggestions(category, "d2", TRUE, "ok",
                                             operation_list, ids, "none")
    \/ /\ Idle
       /\ UNCHANGED <<agent, workers>>
       /\ \E ids \in IdSeqs(1) :
             AddActivityMemory("d2", TRUE, "ok", <<ModelLine("y")>>, ids, "none")
    \/ /\ UpdateCalled \/ AddCalled
       /\ UNCHANGED <<agent, workers>>
       /\ \E category \in BasicCategories, memory_id \in Targets, top_k \in TopKs,
             min_similarity \in MinSimilarities,
             search_categories \in SearchCategoryChoices,
             link_all_items \in BOOLEAN, write_to_memory \in BOOLEAN :
             LinkRelatedMemories(category, memory_id, top_k, min_similarity,
                                 search_categories, link_all_items, write_to_memory,
                                 "none")

SpecChain == Init /\ [][NextChain]_vars

\* ------------------------------------------------------------------------
\* Links written by the link write-back
\* ------------------------------------------------------------------------
\* ids of the items the files of a store hold
StoredItemIds(fs) ==
    UNION {{fs[f][i].memory_id : i \in {j \in 1..Len(fs[f]) : IsTimestampedItem(fs[f][j])}}
              : f \in DOMAIN fs}

\* C38: after any sequence of ingest, reconciling update and link calls,
\* every id the link write-back writes into the links of an item is the id
\* of an item that one of the category files holds at the time of the
\* write: a deleted item is never linked.
C38_NoDanglingLinks ==
    LinkCalled =>
        \A line \in RewrittenLines :
            IsTimestampedItem(line) =>
                Range(line.links) \subseteq StoredItemIds(pre.files)

\* item b was deleted from the profile by a reconciling update, and the
\* link call that followed wrote b into the links of item a
C38_DeletedItemLinked ==
    /\ LinkCalled
    /\ call.category = "profile"
    /\ call.memory_id = "a"
    /\ ~call.link_all_items
    /\ "b" \notin StoredItemIds(pre.files)
    /\ "b" \notin StoredItemIds(files)
    /\ \E r \in Range(SidecarRecords(pre.embeddings, "profile")) : r.memory_id = "b"
    /\ \E line \in RewrittenLines : line.memory_id = "a" /\ "b" \in Range(line.links)

\* ------------------------------------------------------------------------
\* Task status and the result of the run
\* ------------------------------------------------------------------------
\* C39: a memorize task has status SUCCESS only if the run returned a
\* result with success = true; a task whose run returned a result with
\* success = false ends in FAILURE with the error recorded.
C39_SuccessReflectsRun ==
    \A t \in DOMAIN workers.tasks :
        /\ workers.tasks[t].status = "SUCCESS" =>
              workers.tasks[t].result = "result_success"
        /\ workers.pc[t] = "done" /\ workers.tasks[t].result # "result_success" =>
              /\ workers.tasks[t].status = "FAILURE"
              /\ workers.tasks[t].error # "None"

\* a task whose run returned success = false has status SUCCESS and no
\* error, and a status query has answered SUCCESS
C39_FailedRunReportedSuccess ==
    /\ StatusQueried
    /\ result.status = "SUCCESS"
    /\ workers.pc[result.task_id] = "done"
    /\ workers.tasks[result.task_id].status = "SUCCESS"
    /\ workers.tasks[result.task_id].result = "result_failure"
    /\ workers.tasks[result.task_id].error = "None"

\* ------------------------------------------------------------------------
\* Task completion
\* ------------------------------------------------------------------------
\* the background task of every created task is scheduled, and the call of
\* memorize_conversation it awaits returns or raises
FairSpecTasks ==
    /\ SpecTasks
    /\ \A task_id \in TaskIds :
          /\ WF_vars(StartMemorizationTask(task_id))
          /\ WF_vars(\E outcome \in MemorizeOutcomes :
                        FinishMemorizationTask(task_id, outcome))

TaskEnded(task_id) ==
    /\ task_id \in DOMAIN workers.tasks
    /\ workers.tasks[task_id].status \in {"SUCCESS", "FAILURE"}

\* C40: every memorize task that is created reaches SUCCESS or FAILURE
\* eventually, given that its background task is scheduled and that the
\* processing returns or raises: no task stays PENDING or PROCESSING for
\* ever, also when the processing raises.
C40_TaskCompletion ==
    \A task_id \in TaskIds :
        (task_id \in DOMAIN workers.tasks) ~> TaskEnded(task_id)

\* the processing of a task raised and the task ended in FAILURE with the
\* error, while another task is still PENDING
C40_Witness ==
    /\ \E t \in DOMAIN workers.tasks :
          /\ workers.pc[t] = "done"
          /\ workers.tasks[t].status = "FAILURE"
          /\ workers.tasks[t].error = "error"
    /\ \E t \in DOMAIN workers.tasks : workers.tasks[t].status = "PENDING"

====
